---- MODULE Spec2Model ----
(***************************************************************************)
(* A model of CODE SENTINEL: the context chunker (context_manager.py),     *)
(* the response parser (response_parser.py, models.py) and the per-file    *)
(* scan orchestration (scanner.py).                                        *)
(*                                                                         *)
(* Text is modelled as what the code reads of it.  A source file is the    *)
(* sequence of its lines (code.split('\n')), a line being its length in    *)
(* characters and the word its stripped text starts with.                  *)
(***************************************************************************)
EXTENDS Integers, Sequences, FiniteSets, TLC

VARIABLES
    pc,               \* position of the running operation
    model_name,       \* ContextManager.model_name / AIClient.model
    max_chunk_lines,  \* ContextManager.max_chunk_lines
    language,         \* the language argument of chunk_code
    code,             \* the source text: the sequence of its lines
    chunk_start,      \* chunk_code's loop variable (0-based line index)
    chunks,           \* chunk_code's list of CodeChunk
    last_iter,        \* what the last loop iteration of chunk_code computed
    payload,          \* a decoded JSON value (the input of parse_vulnerabilities)
    wrap,             \* how the response text was put together
    resp_text,        \* a response text: the sequence of its lexemes
    args,             \* file_path, model_used, scan_time given to the parser
    op,               \* the parser operation applied
    out,              \* what it returned
    scan_path,        \* scan_file's argument file_path
    readable,         \* whether FileParser.read_file returns the content
    use_context_manager,  \* CodeScanner.use_context_manager
    ai_results,       \* what analyze_code returned, dispatch by dispatch
    chunk_pos,        \* chunks the loop of _scan_file_chunked has been through
    all_vulnerabilities,  \* _scan_file_chunked's accumulator
    total_scan_time,  \* _scan_file_chunked's accumulator
    scan_result,      \* the ScanResult in the making, then returned
    calls,            \* the parser operations invoked, in order
    io_log,           \* discover_files, read_file and analyze_code calls made
    cli_args,         \* main's arguments and what the path holds
    connected,        \* what ai_client.test_connection() returns
    discovered,       \* scan_directory's files
    file_pos,         \* files the loop of scan_directory has been through
    results,          \* CodeScanner.results, then main's results
    exit_status,      \* the exit status of the process
    unsorted,         \* severities in insertion order
    in_order,         \* the same, sorted
    scan_cache,       \* the rows of the table scan_cache
    file_content,     \* what each file on the disk holds
    cached,           \* what the last get_cached_result returned
    cache_log         \* the calls made on the CacheManager, in order

chunkVars == <<max_chunk_lines, language, code, chunk_start, chunks, last_iter>>
parseVars == <<payload, wrap, resp_text, args, op, out>>
scanVars == <<scan_path, readable, use_context_manager, ai_results, chunk_pos,
              all_vulnerabilities, total_scan_time, scan_result, calls>>

runVars == <<cli_args, connected, discovered, file_pos, results, exit_status>>
sortVars == <<unsorted, in_order>>
cacheVars == <<scan_cache, file_content, cached, cache_log>>

vars == <<pc, model_name, chunkVars, parseVars, scanVars, io_log, runVars, sortVars,
          cacheVars>>

-----------------------------------------------------------------------------
(* Bounds of the model.                                                    *)

MaxSegs == 2

\* A list of severities to sort has up to MaxSeverities members.
MaxSeverities == 3

\* Termination is checked on the files of up to MaxFairLines lines.
MaxFairLines == 61

\* A generated file is up to MaxSegs runs of equal lines.
SegLens == {1, 10, 51}

LineMenu ==
    { [head |-> "x",    len |-> 30],
      [head |-> "def ", len |-> 30],
      [head |-> "x",    len |-> 600],
      [head |-> "x",    len |-> 5000] }

ChunkLineChoices == {1, 11, 60, 500}

ModelNames == {"codellama", "mistral"}

Languages == {".py", ".go"}

-----------------------------------------------------------------------------
(* ContextManager: configuration and token estimate.                       *)

TOKEN_LIMITS ==
    ( "codellama" :> 4096 ) @@ ( "llama-3.3-70b-versatile" :> 8000 ) @@
    ( "llama-3.1-70b-versatile" :> 8000 ) @@ ( "mixtral-8x7b-32768" :> 32000 ) @@
    ( "mistral" :> 8000 ) @@ ( "qwen2.5-coder" :> 32000 )

CHARS_PER_TOKEN == 4
PROMPT_OVERHEAD == 1000
RESPONSE_TOKENS == 2000
DEFAULT_TOKEN_LIMIT == 4096
DEFAULT_MAX_CHUNK_LINES == 500
SHRINK_LINES == 50
MIN_CHUNK_LINES == 10

\* The modelled model names are the table's keys themselves, so the
\* substring test `key in model_name.lower()` is membership in the table.
get_token_limit(name) ==
    IF name \in DOMAIN TOKEN_LIMITS THEN TOKEN_LIMITS[name]
    ELSE DEFAULT_TOKEN_LIMIT

max_code_tokens ==
    get_token_limit(model_name) - PROMPT_OVERHEAD - RESPONSE_TOKENS

\* the characters of lines a..b, summed by halves
RECURSIVE SumLen(_, _, _)
SumLen(lines, a, b) ==
    IF a > b THEN 0
    ELSE IF a = b THEN lines[a].len
    ELSE LET m == (a + b) \div 2
         IN  SumLen(lines, a, m) + SumLen(lines, m + 1, b)

\* len('\n'.join(lines)): the characters of the lines and the newlines between.
JoinLen(lines) ==
    IF Len(lines) = 0 THEN 0
    ELSE SumLen(lines, 1, Len(lines)) + (Len(lines) - 1)

estimate_tokens(text) == JoinLen(text) \div CHARS_PER_TOKEN

\* code.count('\n') + 1
LineCount(text) == Len(text)

needs_chunking(text) ==
    \/ estimate_tokens(text) > max_code_tokens
    \/ LineCount(text) > max_chunk_lines

\* lines[a:b] of Python, for 0 <= a <= b <= len(lines)
Slice(lines, a, b) == SubSeq(lines, a + 1, b)

-----------------------------------------------------------------------------
(* ContextManager._find_good_break_point                                   *)

IsBoundary(line, lang) ==
    IF lang \in {"python", ".py"}
        THEN line.head \in {"def ", "class "}
    ELSE IF lang \in {"javascript", "typescript", ".js", ".ts"}
        THEN line.head \in {"function ", "class "}
    ELSE IF lang \in {"java", ".java"}
        THEN line.head \in {"public ", "private ", "protected "}
    ELSE FALSE

\* for i in range(end - 1, start, -1): the first hit is the largest index
find_good_break_point(lines, start, end, lang) ==
    LET hits == { i \in (start + 1)..(end - 1) : IsBoundary(lines[i + 1], lang) }
    IN  IF hits = {} THEN end
        ELSE CHOOSE i \in hits : \A j \in hits : j <= i

-----------------------------------------------------------------------------
(* ContextManager.chunk_code                                               *)

\* chunk_end = min(chunk_start + max_chunk_lines, len(lines)), then the
\* boundary search when the proposed end is not the end of the file
ProposedEnd(lines, start) ==
    IF start + max_chunk_lines < Len(lines)
        THEN start + max_chunk_lines ELSE Len(lines)

BreakEnd(lines, start, lang) ==
    LET e == ProposedEnd(lines, start)
    IN  IF e < Len(lines) THEN find_good_break_point(lines, start, e, lang)
        ELSE e

\* the inner `while estimate_tokens(...) > max_code_tokens and
\* len(chunk_lines) > 10` loop; returns the final chunk_end
ShrinkNext_NoFloor(start, end) == start + (end - start) - SHRINK_LINES

ShrinkNext(start, end) ==
    IF start + (end - start) - SHRINK_LINES <= start
        THEN start + MIN_CHUNK_LINES
    ELSE start + (end - start) - SHRINK_LINES

RECURSIVE ShrinkLoop(_, _, _)
ShrinkLoop(lines, start, end) ==
    IF /\ estimate_tokens(Slice(lines, start, end)) > max_code_tokens
       /\ end - start > MIN_CHUNK_LINES
        THEN ShrinkLoop(lines, start, ShrinkNext(start, end))
    ELSE end

CodeChunk(content, start_line, end_line, chunk_index, total_chunks) ==
    [ content |-> content, start_line |-> start_line, end_line |-> end_line,
      chunk_index |-> chunk_index, total_chunks |-> total_chunks ]

\* one iteration of `while chunk_start < len(lines)`
IterEnd(lines, start, lang) ==
    ShrinkLoop(lines, start, BreakEnd(lines, start, lang))

\* a chunk whose start_line is the 0-based index (the + 1 forgotten)
IterChunk_ZeroBased(lines, start, lang, index) ==
    LET e == IterEnd(lines, start, lang)
    IN  CodeChunk(Slice(lines, start, e), start, e, index, 0)

\* a chunk whose content stops one line short of chunk_end
IterChunk_ShortSlice(lines, start, lang, index) ==
    LET e == IterEnd(lines, start, lang)
    IN  CodeChunk(Slice(lines, start, e - 1), start + 1, e, index, 0)

IterChunk(lines, start, lang, index) ==
    LET e == IterEnd(lines, start, lang)
    IN  CodeChunk(Slice(lines, start, e), start + 1, e, index, 0)

SetTotal(cs) ==
    [ i \in 1..Len(cs) |-> [ cs[i] EXCEPT !.total_chunks = Len(cs) ] ]

\* the single chunk with total_chunks left at the 0 of the loop's chunks
WholeChunk_NoTotal(text) ==
    CodeChunk(text, 1, LineCount(text), 0, 0)

WholeChunk(text) ==
    CodeChunk(text, 1, LineCount(text), 0, 1)

RECURSIVE ChunkLoop(_, _, _, _)
ChunkLoop(lines, start, lang, acc) ==
    IF start < Len(lines)
        THEN LET c == IterChunk(lines, start, lang, Len(acc))
             IN  ChunkLoop(lines, c.end_line, lang, Append(acc, c))
    ELSE acc

chunk_code(text, lang) ==
    IF ~needs_chunking(text) THEN <<WholeChunk(text)>>
    ELSE SetTotal(ChunkLoop(text, 0, lang, <<>>))

-----------------------------------------------------------------------------
(* Response text and Python values.                                        *)
(*                                                                         *)
(* A response text is the sequence of its lexemes: the code fence, the tag *)
(* json, white space, the JSON punctuation, the double quote, number       *)
(* literals and words.  A Python value is a tagged record; a str is the    *)
(* sequence of its lexemes, a dict the sequence of its (key, value) items  *)
(* in insertion order.                                                     *)

\* the lexemes are named: three backticks, the double quote
FENCE == "<fence>"
\* a run of opening brackets longer than the recursion limit allows
DEEP_BRACKETS == "<100000 opening brackets>"
JSONTAG == "json"
WS == " "
QUOTE == "<quote>"

PyNone == [t |-> "none", v |-> 0]
PyBool(b) == [t |-> "bool", v |-> b]
PyInt(n) == [t |-> "int", v |-> n]
\* a float, held in hundredths
PyFloat(h) == [t |-> "float", v |-> h]
PyStr(s) == [t |-> "str", v |-> s]
PyList(l) == [t |-> "list", v |-> l]
PyDict(items) == [t |-> "dict", v |-> items]

Word(w) == PyStr(<<w>>)

\* `value is None`
IsNone(value) == value.t = "none"

\* equality of two Python values, tag first (identical structure: the items
\* of two equal dicts are in the same order)
RECURSIVE PyEq(_, _)
PyEq(a, b) ==
    IF a.t # b.t THEN FALSE
    ELSE IF a.t = "list"
        THEN /\ Len(a.v) = Len(b.v)
             /\ \A i \in 1..Len(a.v) : PyEq(a.v[i], b.v[i])
    ELSE IF a.t = "dict"
        THEN /\ Len(a.v) = Len(b.v)
             /\ \A i \in 1..Len(a.v) :
                   a.v[i][1] = b.v[i][1] /\ PyEq(a.v[i][2], b.v[i][2])
    ELSE a.v = b.v

\* the number literals of the modelled texts and the values json.loads gives
NumberValue ==
    ( "0" :> PyInt(0) ) @@ ( "3" :> PyInt(3) ) @@ ( "7" :> PyInt(7) ) @@
    ( "-1" :> PyInt(-1) ) @@ ( "0.5" :> PyFloat(50) ) @@
    ( "0.95" :> PyFloat(95) ) @@ ( "1.5" :> PyFloat(150) ) @@
    ( "3.5" :> PyFloat(350) )

LiteralValue ==
    ( "null" :> PyNone ) @@ ( "true" :> PyBool(TRUE) ) @@
    ( "false" :> PyBool(FALSE) )

\* dict.get(key, default)
DictGet(d, key, default) ==
    IF \E i \in 1..Len(d.v) : d.v[i][1] = key
        THEN d.v[CHOOSE i \in 1..Len(d.v) : d.v[i][1] = key][2]
    ELSE default

\* d[key] = value on the items of a dict: an existing key keeps its place
DictSet(items, key, value) ==
    IF \E i \in 1..Len(items) : items[i][1] = key
        THEN [ i \in 1..Len(items) |->
                 IF items[i][1] = key THEN <<key, value>> ELSE items[i] ]
    ELSE Append(items, <<key, value>>)

-----------------------------------------------------------------------------
(* json.loads on a lexeme sequence.                                        *)

\* the first position from i on that holds no white space (Len(s) + 1 at the end)
SkipWS(s, i) ==
    CHOOSE j \in i..(Len(s) + 1) :
        /\ \A k \in i..(j - 1) : s[k] = WS
        /\ (j = Len(s) + 1 \/ s[j] # WS)

At(s, i) == IF i >= 1 /\ i <= Len(s) THEN s[i] ELSE "<eof>"

\* json.loads returned a value, raised JSONDecodeError, or ran out of stack
\* on arrays nested deeper than the interpreter's recursion limit and raised
\* RecursionError, which is no JSONDecodeError
DecodeError == [ok |-> FALSE, val |-> PyNone, pos |-> 0, raised |-> FALSE]
RecursionError == [ok |-> FALSE, val |-> PyNone, pos |-> 0, raised |-> TRUE]
Decoded(val, pos) == [ok |-> TRUE, val |-> val, pos |-> pos, raised |-> FALSE]

\* a string literal opening at i: up to the next double quote
ParseString(s, i) ==
    LET closers == { j \in (i + 1)..Len(s) : s[j] = QUOTE }
    IN  IF At(s, i) # QUOTE \/ closers = {} THEN DecodeError
        ELSE LET j == CHOOSE c \in closers : \A d \in closers : c <= d
             IN  Decoded(PyStr(SubSeq(s, i + 1, j - 1)), j + 1)

RECURSIVE ParseValue(_, _)
RECURSIVE ParseMembers(_, _, _)
RECURSIVE ParseElems(_, _, _)

\* the members of an object, i at the first lexeme of a member
ParseMembers(s, i, acc) ==
    LET k == ParseString(s, i)
    IN  IF ~k.ok THEN DecodeError
        ELSE LET c == SkipWS(s, k.pos)
             IN  IF At(s, c) # ":" THEN DecodeError
                 ELSE LET v == ParseValue(s, c + 1)
                      IN  IF ~v.ok THEN v
                          ELSE LET n == SkipWS(s, v.pos)
                                   items == DictSet(acc, k.val.v, v.val)
                               IN  IF At(s, n) = ","
                                       THEN ParseMembers(s, SkipWS(s, n + 1), items)
                                   ELSE IF At(s, n) = "}"
                                       THEN Decoded(PyDict(items), n + 1)
                                   ELSE DecodeError

\* the elements of an array, i after the bracket or the comma
ParseElems(s, i, acc) ==
    LET v == ParseValue(s, i)
    IN  IF ~v.ok THEN v
        ELSE LET n == SkipWS(s, v.pos)
             IN  IF At(s, n) = ","
                     THEN ParseElems(s, n + 1, Append(acc, v.val))
                 ELSE IF At(s, n) = "]"
                     THEN Decoded(PyList(Append(acc, v.val)), n + 1)
                 ELSE DecodeError

ParseValue(s, i0) ==
    LET i == SkipWS(s, i0)
        c == At(s, i)
    IN  IF c = "{"
            THEN LET j == SkipWS(s, i + 1)
                 IN  IF At(s, j) = "}" THEN Decoded(PyDict(<<>>), j + 1)
                     ELSE ParseMembers(s, j, <<>>)
        ELSE IF c = "["
            THEN LET j == SkipWS(s, i + 1)
                 IN  IF At(s, j) = "]" THEN Decoded(PyList(<<>>), j + 1)
                     ELSE ParseElems(s, i + 1, <<>>)
        ELSE IF c = DEEP_BRACKETS THEN RecursionError
        ELSE IF c = QUOTE THEN ParseString(s, i)
        ELSE IF c \in DOMAIN NumberValue THEN Decoded(NumberValue[c], i + 1)
        ELSE IF c \in DOMAIN LiteralValue THEN Decoded(LiteralValue[c], i + 1)
        ELSE DecodeError

\* json.loads(s): one value, white space around it allowed, nothing after it
json_loads(s) ==
    LET Whole(r) ==
            IF r.raised THEN r
            ELSE IF r.ok /\ SkipWS(s, r.pos) = Len(s) + 1 THEN r
            ELSE DecodeError
    IN  Whole(ParseValue(s, 1))

-----------------------------------------------------------------------------
(* models.py: Severity, Vulnerability, ScanResult.                         *)

SeverityLiterals ==
    ( "critical" :> "CRITICAL" ) @@ ( "high" :> "HIGH" ) @@
    ( "medium" :> "MEDIUM" ) @@ ( "low" :> "LOW" ) @@ ( "info" :> "INFO" )

Raised == [ok |-> FALSE, val |-> PyNone]
Returned(val) == [ok |-> TRUE, val |-> val]

\* Severity(value): the member whose value is `value`, else ValueError
Severity(value) ==
    IF value.t = "str" /\ Len(value.v) = 1 /\ value.v[1] \in DOMAIN SeverityLiterals
        THEN Returned(SeverityLiterals[value.v[1]])
    ELSE Raised

\* Severity.__lt__: the order table of lines 21-27
SeverityOrder ==
    ( "CRITICAL" :> 0 ) @@ ( "HIGH" :> 1 ) @@ ( "MEDIUM" :> 2 ) @@
    ( "LOW" :> 3 ) @@ ( "INFO" :> 4 )

\* the members compared by the alphabetical order of their values
Severity_lt_Alphabetical(self, other) ==
    LET order == ( "CRITICAL" :> 0 ) @@ ( "HIGH" :> 1 ) @@ ( "INFO" :> 2 ) @@
                 ( "LOW" :> 3 ) @@ ( "MEDIUM" :> 4 )
    IN  order[self] < order[other]

\* line 28: order[self] < order[other]
Severity_lt(self, other) == SeverityOrder[self] < SeverityOrder[other]

\* sorted(list) of Python is stable and compares with __lt__ only: each
\* item goes before the first item of the sorted part that it is less than
RECURSIVE InsertInOrder(_, _, _)
InsertInOrder(list, item, i) ==
    IF i > Len(list) THEN Append(list, item)
    ELSE IF Severity_lt(item, list[i])
        THEN SubSeq(list, 1, i - 1) \o <<item>> \o SubSeq(list, i, Len(list))
    ELSE InsertInOrder(list, item, i + 1)

RECURSIVE SortedUpTo(_, _)
SortedUpTo(list, n) ==
    IF n = 0 THEN <<>>
    ELSE InsertInOrder(SortedUpTo(list, n - 1), list[n], 1)

sorted(list) == SortedUpTo(list, Len(list))

Vulnerability(type, severity, line, code_snippet, description, recommendation, cwe_id, confidence) ==
    [ type |-> type, severity |-> severity, line |-> line,
      code_snippet |-> code_snippet, description |-> description,
      recommendation |-> recommendation, cwe_id |-> cwe_id,
      confidence |-> confidence ]

Key(w) == <<w>>
EmptyStr == PyStr(<<>>)

\* Vulnerability.from_dict: data.get on a non-dict raises AttributeError
from_dict(data) ==
    IF data.t # "dict" THEN Raised
    ELSE LET sev == Severity(DictGet(data, Key("severity"), Word("medium")))
         IN  IF ~sev.ok THEN Raised
             ELSE Returned(Vulnerability(
                      DictGet(data, Key("type"), Word("Unknown")),
                      sev.val,
                      DictGet(data, Key("line"), PyNone),
                      DictGet(data, Key("code_snippet"), EmptyStr),
                      DictGet(data, Key("description"), EmptyStr),
                      DictGet(data, Key("recommendation"), EmptyStr),
                      DictGet(data, Key("cwe_id"), PyNone),
                      DictGet(data, Key("confidence"), PyFloat(100))))

\* error = None
NoError == "<None>"

ScanResult(file_path, vulnerabilities, scan_time, model_used, success, error) ==
    [ file_path |-> file_path, vulnerabilities |-> vulnerabilities,
      scan_time |-> scan_time, model_used |-> model_used,
      success |-> success, error |-> error ]

\* equality of findings and of results, field by field
VulnEq(a, b) ==
    /\ a.severity = b.severity
    /\ PyEq(a.type, b.type) /\ PyEq(a.line, b.line)
    /\ PyEq(a.code_snippet, b.code_snippet)
    /\ PyEq(a.description, b.description)
    /\ PyEq(a.recommendation, b.recommendation)
    /\ PyEq(a.cwe_id, b.cwe_id) /\ PyEq(a.confidence, b.confidence)

VulnsEq(as, bs) ==
    /\ Len(as) = Len(bs)
    /\ \A i \in 1..Len(as) : VulnEq(as[i], bs[i])

\* ScanResult(file_path=..., model_used=..., scan_time=...): the defaults
NewScanResult(file_path, model_used, scan_time) ==
    ScanResult(file_path, <<>>, scan_time, model_used, TRUE, NoError)

-----------------------------------------------------------------------------
(* response_parser.py: extract_json.                                       *)

Min(S) == CHOOSE x \in S : \A y \in S : x <= y
Max(S) == CHOOSE x \in S : \A y \in S : y <= x

\* r'```(?:json)?\s*(\{.*?\})\s*```' tried at the fence at p: the span of
\* group 1, or <<0, 0>>.  The tag and the white space are taken greedily and
\* what follows them must be the brace; the lazy .*? ends at the first
\* closing brace that white space and a fence follow.
FenceMatchAt(text, p) ==
    LET a == IF At(text, p + 1) = JSONTAG THEN p + 2 ELSE p + 1
        b == SkipWS(text, a)
        ends == { e \in (b + 1)..Len(text) :
                    /\ text[e] = "}"
                    /\ At(text, SkipWS(text, e + 1)) = FENCE }
    IN  IF At(text, p) = FENCE /\ At(text, b) = "{" /\ ends # {}
            THEN <<b, Min(ends)>>
        ELSE <<0, 0>>

\* re.search: the leftmost position where the pattern matches
FenceSearch(text) ==
    LET starts == { p \in 1..Len(text) : FenceMatchAt(text, p) # <<0, 0>> }
    IN  IF starts = {} THEN <<0, 0>> ELSE FenceMatchAt(text, Min(starts))

\* r'\{.*"vulnerabilities".*\}' with DOTALL, greedy: from the first opening
\* brace to the last closing brace, the quoted word in between
RawSearch(text) ==
    LET opens == { b \in 1..Len(text) : text[b] = "{" }
        closes == { e \in 1..Len(text) : text[e] = "}" }
        b == Min(opens)
        e == Max(closes)
    IN  IF /\ opens # {} /\ closes # {}
           /\ \E q \in (b + 1)..(e - 3) :
                SubSeq(text, q, q + 2) = <<QUOTE, "vulnerabilities", QUOTE>>
            THEN <<b, e>>
        ELSE <<0, 0>>

\* text.strip()
Strip(text) ==
    LET keep == { i \in 1..Len(text) : text[i] # WS }
    IN  IF keep = {} THEN <<>> ELSE SubSeq(text, Min(keep), Max(keep))

\* the candidate json_str of extract_json, lines 26-39
JsonCandidate(text) ==
    LET f == FenceSearch(text)
        r == RawSearch(text)
    IN  IF f # <<0, 0>> THEN SubSeq(text, f[1], f[2])
        ELSE IF r # <<0, 0>> THEN SubSeq(text, r[1], r[2])
        ELSE Strip(text)

\* extract_json did not return: RecursionError left it
RAISED == [t |-> "raised", v |-> 0]

\* lines 41-46: the decoded value, None on JSONDecodeError; the except
\* clause names JSONDecodeError only
extract_json(text) ==
    LET Loaded(r) ==
            IF r.raised THEN RAISED
            ELSE IF r.ok THEN r.val
            ELSE PyNone
    IN  Loaded(json_loads(JsonCandidate(text)))

-----------------------------------------------------------------------------
(* response_parser.py: parse_vulnerabilities, parse_response.              *)

\* what `for vuln_data in vulns_data` iterates: the elements of a list, the
\* keys of a dict, the pieces of a str; other values are not iterable
IterItems(v) ==
    IF v.t = "list" THEN Returned(v.v)
    ELSE IF v.t = "dict"
        THEN Returned([ i \in 1..Len(v.v) |-> PyStr(v.v[i][1]) ])
    ELSE IF v.t = "str"
        THEN Returned([ i \in 1..Len(v.v) |-> PyStr(<<v.v[i]>>) ])
    ELSE Raised

\* the loop with the try around it instead of in it: the first record that
\* fails to convert ends the parsing
RECURSIVE VulnLoop_Abort(_, _, _)
VulnLoop_Abort(items, i, acc) ==
    IF i > Len(items) THEN acc
    ELSE LET r == from_dict(items[i])
         IN  IF r.ok THEN VulnLoop_Abort(items, i + 1, Append(acc, r.val))
             ELSE acc

\* the loop of lines 63-70: a record that fails to convert is skipped
RECURSIVE VulnLoop(_, _, _)
VulnLoop(items, i, acc) ==
    IF i > Len(items) THEN acc
    ELSE LET r == from_dict(items[i])
         IN  VulnLoop(items, i + 1, IF r.ok THEN Append(acc, r.val) ELSE acc)

\* parse_vulnerabilities(data): the list, or the exception that leaves it
parse_vulnerabilities(data) ==
    IF data.t # "dict" THEN Raised
    ELSE LET it == IterItems(DictGet(data, Key("vulnerabilities"), PyList(<<>>)))
         IN  IF ~it.ok THEN Raised
             ELSE Returned(VulnLoop(it.val, 1, <<>>))

EXTRACT_FAILED == "Failed to extract JSON from AI response"
EXCEPTION_RAISED == "<RecursionError raised>"
PARSE_FAILED == "Failed to parse vulnerabilities: <exception>"

\* parse_response without the `if data is None` return: None goes on to
\* parse_vulnerabilities, whose AttributeError the except clause reports
parse_response_Unchecked(text, file_path, model_used, scan_time) ==
    LET result == NewScanResult(file_path, model_used, scan_time)
        vs == parse_vulnerabilities(extract_json(text))
    IN  IF vs.ok
            THEN [ result EXCEPT !.vulnerabilities = vs.val, !.success = TRUE ]
        ELSE [ result EXCEPT !.success = FALSE, !.error = PARSE_FAILED ]

\* line 95 is outside the try: what leaves extract_json leaves
\* parse_response, which returns no ScanResult then
RaisedResult(file_path, model_used, scan_time) ==
    ScanResult(file_path, <<>>, scan_time, model_used, FALSE, EXCEPTION_RAISED)

Raises(result) == result.error = EXCEPTION_RAISED

parse_response(text, file_path, model_used, scan_time) ==
    LET result == NewScanResult(file_path, model_used, scan_time)
        data == extract_json(text)
    IN  IF data.t = "raised" THEN RaisedResult(file_path, model_used, scan_time)
        ELSE IF IsNone(data)
            THEN [ result EXCEPT !.success = FALSE, !.error = EXTRACT_FAILED ]
        ELSE LET vs == parse_vulnerabilities(data)
             IN  IF vs.ok
                     THEN [ result EXCEPT !.vulnerabilities = vs.val,
                                          !.success = TRUE ]
                 ELSE [ result EXCEPT !.success = FALSE, !.error = PARSE_FAILED ]

-----------------------------------------------------------------------------
(* The lexemes of the modelled texts: their lengths in characters, their   *)
(* lower-case forms and the patterns that occur inside them.               *)

LONG_PROSE == "<600 characters of prose>"
CUT_LEXEME == "<cut>"

LexLen ==
    ( FENCE :> 3 ) @@ ( QUOTE :> 1 ) @@ ( LONG_PROSE :> 600 ) @@
    ( DEEP_BRACKETS :> 100000 ) @@
    ( "vulnerabilities" :> 15 ) @@
    ( "severity" :> 8 ) @@
    ( "line" :> 4 ) @@
    ( "confidence" :> 10 ) @@
    ( "type" :> 4 ) @@
    ( "code_snippet" :> 12 ) @@
    ( "description" :> 11 ) @@
    ( "recommendation" :> 14 ) @@
    ( "cwe_id" :> 6 ) @@
    ( "critical" :> 8 ) @@
    ( "high" :> 4 ) @@
    ( "medium" :> 6 ) @@
    ( "low" :> 3 ) @@
    ( "info" :> 4 ) @@
    ( "nonsense" :> 8 ) @@
    ( "CRITICAL" :> 8 ) @@
    ( "High" :> 4 ) @@
    ( "SQL Injection" :> 13 ) @@
    ( "XSS" :> 3 ) @@
    ( "Unknown" :> 7 ) @@
    ( "Security Issue" :> 14 ) @@
    ( "Review AI analysis for details" :> 30 ) @@
    ( "no vulnerabilities" :> 18 ) @@
    ( "appears secure" :> 14 ) @@
    ( "no security issues" :> 18 ) @@
    ( "no issues found" :> 15 ) @@
    ( "code is secure" :> 14 ) @@
    ( "No Vulnerabilities" :> 18 ) @@
    ( "APPEARS SECURE" :> 14 ) @@
    ( "No security issues" :> 18 ) @@
    ( "NO ISSUES FOUND" :> 15 ) @@
    ( "Code is secure" :> 14 ) @@
    ( "Here is the analysis:" :> 21 ) @@
    ( "Done." :> 5 ) @@
    ( "highlight" :> 9 ) @@
    ( "below" :> 5 ) @@
    ( "x" :> 1 ) @@
    ( "CWE-89" :> 6 ) @@
    ( "{" :> 1 ) @@
    ( "}" :> 1 ) @@
    ( "[" :> 1 ) @@
    ( "]" :> 1 ) @@
    ( ":" :> 1 ) @@
    ( "," :> 1 ) @@
    ( "0" :> 1 ) @@
    ( "3" :> 1 ) @@
    ( "7" :> 1 ) @@
    ( "-1" :> 2 ) @@
    ( "0.5" :> 3 ) @@
    ( "0.95" :> 4 ) @@
    ( "1.5" :> 3 ) @@
    ( "3.5" :> 3 ) @@
    ( "null" :> 4 ) @@
    ( "true" :> 4 ) @@
    ( "false" :> 5 ) @@
    ( JSONTAG :> 4 ) @@
    ( WS :> 1 )

\* str.lower(), lexeme by lexeme
LowerTable ==
    ( "CRITICAL" :> "critical" ) @@
    ( "High" :> "high" ) @@
    ( "No Vulnerabilities" :> "no vulnerabilities" ) @@
    ( "APPEARS SECURE" :> "appears secure" ) @@
    ( "No security issues" :> "no security issues" ) @@
    ( "NO ISSUES FOUND" :> "no issues found" ) @@
    ( "Code is secure" :> "code is secure" )

LowerLex(l) == IF l \in DOMAIN LowerTable THEN LowerTable[l] ELSE l
Lower(text) == [ i \in 1..Len(text) |-> LowerLex(text[i]) ]

\* the words that occur inside a longer lexeme
Inside ==
    ( "highlight" :> {"high"} ) @@ ( "below" :> {"low"} )

\* re.search(pattern, text) for a pattern that is a plain word or phrase
re_search(pattern, text) ==
    \E i \in 1..Len(text) :
        \/ text[i] = pattern
        \/ text[i] \in DOMAIN Inside /\ pattern \in Inside[text[i]]

\* len(text)
RECURSIVE TextLen(_, _)
TextLen(text, n) ==
    IF n = 0 THEN 0 ELSE LexLen[text[n]] + TextLen(text, n - 1)

\* text[:n]: the lexemes that fit whole, then the cut piece of the next one
Prefix(text, n) ==
    LET fit == { k \in 0..Len(text) : TextLen(text, k) <= n }
        k == Max(fit)
    IN  IF k = Len(text) \/ TextLen(text, k) = n THEN SubSeq(text, 1, k)
        ELSE Append(SubSeq(text, 1, k), CUT_LEXEME)

-----------------------------------------------------------------------------
(* response_parser.py: parse_legacy_response.                              *)

NO_VULN_PATTERNS ==
    { "no vulnerabilities", "appears secure", "no security issues",
      "no issues found", "code is secure" }

SEVERITY_PATTERN == { "critical", "high", "medium", "low" }

DESCRIPTION_CHARS == 500

\* the generic finding with the whole text for its description
LegacyVulnerability_WholeText(text) ==
    Vulnerability(Word("Security Issue"), "MEDIUM", PyNone, EmptyStr, PyStr(text),
                  Word("Review AI analysis for details"), PyNone, PyFloat(50))

LegacyVulnerability(text) ==
    Vulnerability(Word("Security Issue"), "MEDIUM", PyNone, EmptyStr,
                  PyStr(Prefix(text, DESCRIPTION_CHARS)),
                  Word("Review AI analysis for details"), PyNone, PyFloat(50))

\* the no-issue phrases looked for after the severity keywords
parse_legacy_response_KeywordsFirst(text, file_path, model_used, scan_time) ==
    LET result == NewScanResult(file_path, model_used, scan_time)
        text_lower == Lower(text)
    IN  IF \E k \in SEVERITY_PATTERN : re_search(k, text_lower)
            THEN [ result EXCEPT !.vulnerabilities = <<LegacyVulnerability(text)>>,
                                 !.success = TRUE ]
        ELSE [ result EXCEPT !.success = TRUE ]

\* a text with neither a no-issue phrase nor a keyword reported as a failure
parse_legacy_response_FailUnrecognised(text, file_path, model_used, scan_time) ==
    LET result == NewScanResult(file_path, model_used, scan_time)
        text_lower == Lower(text)
    IN  IF \E pattern \in NO_VULN_PATTERNS : re_search(pattern, text_lower)
            THEN [ result EXCEPT !.success = TRUE ]
        ELSE IF \E k \in SEVERITY_PATTERN : re_search(k, text_lower)
            THEN [ result EXCEPT !.vulnerabilities = <<LegacyVulnerability(text)>>,
                                 !.success = TRUE ]
        ELSE [ result EXCEPT !.success = FALSE, !.error = PARSE_FAILED ]

parse_legacy_response(text, file_path, model_used, scan_time) ==
    LET result == NewScanResult(file_path, model_used, scan_time)
        text_lower == Lower(text)
    IN  IF \E pattern \in NO_VULN_PATTERNS : re_search(pattern, text_lower)
            THEN [ result EXCEPT !.success = TRUE ]
        ELSE IF \E k \in SEVERITY_PATTERN : re_search(k, text_lower)
            THEN [ result EXCEPT !.vulnerabilities = <<LegacyVulnerability(text)>>,
                                 !.success = TRUE ]
        ELSE [ result EXCEPT !.success = TRUE ]

-----------------------------------------------------------------------------
(* chunk_code as a state machine: one action per loop iteration.           *)

Repeat(line, n) == [ i \in 1..n |-> line ]

RECURSIVE Concat(_, _)
Concat(segs, n) ==
    IF n = 0 THEN <<>>
    ELSE Concat(segs, n - 1) \o Repeat(segs[n][2], segs[n][1])

Segments == SegLens \X LineMenu

Files ==
    { Concat(segs, Len(segs)) :
        segs \in UNION { [1..n -> Segments] : n \in 1..MaxSegs } }

NoIter == [start |-> 0, proposed |-> 0, broken |-> 0, end |-> 0]

\* the parser is not in use
NoArgs == [file_path |-> "", model_used |-> "", scan_time |-> 0]

ParseIdle ==
    /\ payload = PyNone
    /\ wrap = "none"
    /\ resp_text = <<>>
    /\ args = NoArgs
    /\ op = "none"
    /\ out = PyNone

\* no scan is running
ScanIdle ==
    /\ scan_path = ""
    /\ readable = FALSE
    /\ use_context_manager = FALSE
    /\ ai_results = <<>>
    /\ chunk_pos = 0
    /\ all_vulnerabilities = <<>>
    /\ total_scan_time = 0
    /\ scan_result = PyNone
    /\ calls = <<>>

\* no invocation of the CLI is running
NoCliArgs == [path_exists |-> FALSE, format |-> "", output |-> FALSE, listing |-> <<>>]

RunIdle ==
    /\ io_log = <<>>
    /\ cli_args = NoCliArgs
    /\ connected = FALSE
    /\ discovered = <<>>
    /\ file_pos = 0
    /\ results = <<>>
    /\ exit_status = 0

\* nothing is being sorted
SortIdle ==
    /\ unsorted = <<>>
    /\ in_order = <<>>

\* no CacheManager is in use
CacheIdle ==
    /\ scan_cache = {}
    /\ file_content = <<>>
    /\ cached = PyNone
    /\ cache_log = <<>>

InitChunk ==
    /\ pc = "chunk_code"
    /\ model_name \in ModelNames
    /\ max_chunk_lines \in ChunkLineChoices
    /\ language \in Languages
    /\ code \in Files
    /\ chunk_start = 0
    /\ chunks = <<>>
    /\ last_iter = NoIter
    /\ ParseIdle
    /\ ScanIdle
    /\ RunIdle
    /\ SortIdle
    /\ CacheIdle

\* lines 160-171: no chunking needed, one chunk spanning the file
ChunkWhole ==
    /\ pc = "chunk_code"
    /\ ~needs_chunking(code)
    /\ chunks' = <<WholeChunk(code)>>
    /\ pc' = "chunk_done"
    /\ UNCHANGED <<model_name, max_chunk_lines, language, code, chunk_start,
                   last_iter, parseVars, scanVars, io_log,
                   runVars, sortVars, cacheVars>>

\* lines 173-179
ChunkBegin ==
    /\ pc = "chunk_code"
    /\ needs_chunking(code)
    /\ chunks' = <<>>
    /\ chunk_start' = 0
    /\ pc' = "chunk_loop"
    /\ UNCHANGED <<model_name, max_chunk_lines, language, code, last_iter,
                   parseVars, scanVars, io_log,
                   runVars, sortVars, cacheVars>>

\* lines 181-212
ChunkStep ==
    /\ pc = "chunk_loop"
    /\ chunk_start < Len(code)
    /\ LET c == IterChunk(code, chunk_start, language, Len(chunks))
       IN  /\ chunks' = Append(chunks, c)
           /\ chunk_start' = c.end_line
           /\ last_iter' = [ start |-> chunk_start,
                             proposed |-> ProposedEnd(code, chunk_start),
                             broken |-> BreakEnd(code, chunk_start, language),
                             end |-> c.end_line ]
    /\ UNCHANGED <<pc, model_name, max_chunk_lines, language, code, parseVars,
                   scanVars, io_log,
                   runVars, sortVars, cacheVars>>

\* lines 214-218
ChunkFinish ==
    /\ pc = "chunk_loop"
    /\ ~(chunk_start < Len(code))
    /\ chunks' = SetTotal(chunks)
    /\ pc' = "chunk_done"
    /\ UNCHANGED <<model_name, max_chunk_lines, language, code, chunk_start,
                   last_iter, parseVars, scanVars, io_log,
                   runVars, sortVars, cacheVars>>

NextChunk == ChunkWhole \/ ChunkBegin \/ ChunkStep \/ ChunkFinish

SpecChunk == InitChunk /\ [][NextChunk]_vars

\* max_chunk_lines of one line, of a few lines and the default
FairChunkLineChoices == {1, 11, DEFAULT_MAX_CHUNK_LINES}

\* the files of up to MaxFairLines lines
ShortFiles == { f \in Files : Len(f) <= MaxFairLines }

InitChunkShort ==
    /\ pc = "chunk_code"
    /\ model_name \in ModelNames
    /\ max_chunk_lines \in FairChunkLineChoices
    /\ language \in Languages
    /\ code \in ShortFiles
    /\ chunk_start = 0
    /\ chunks = <<>>
    /\ last_iter = NoIter
    /\ ParseIdle
    /\ ScanIdle
    /\ RunIdle
    /\ SortIdle
    /\ CacheIdle

\* chunk_code is one call running in one thread: its loop goes on while it
\* can
SpecChunkFair == InitChunkShort /\ [][NextChunk]_vars /\ WF_vars(NextChunk)

-----------------------------------------------------------------------------
(* The parser's inputs: decoded payloads, their serialization by           *)
(* json.dumps and the response texts built around it.                      *)

MaxEntries == 2

Dict1(k1, v1) == PyDict(<< <<Key(k1), v1>> >>)
Dict2(k1, v1, k2, v2) == PyDict(<< <<Key(k1), v1>>, <<Key(k2), v2>> >>)
Dict3(k1, v1, k2, v2, k3, v3) ==
    PyDict(<< <<Key(k1), v1>>, <<Key(k2), v2>>, <<Key(k3), v3>> >>)

\* the entries a vulnerabilities array is drawn from
EntryMenu ==
    << Dict3("type", Word("SQL Injection"), "severity", Word("critical"),
             "line", PyInt(3)),
       Dict2("severity", Word("high"), "confidence", PyFloat(95)),
       Dict1("type", Word("XSS")),
       Dict2("severity", Word("nonsense"), "line", PyInt(7)),
       Dict2("severity", Word("CRITICAL"), "type", Word("XSS")),
       Dict2("severity", PyNone, "line", PyInt(3)),
       Dict2("severity", Word("low"), "line", Word("3")),
       Dict2("severity", Word("info"), "confidence", PyFloat(150)),
       Dict2("severity", Word("medium"),
             "code_snippet", PyStr(<<"x", "}", FENCE>>)),
       PyInt(3) >>

\* a vulnerabilities array: the entries picked by their places in the menu
EntryPicks == UNION { [1..n -> 1..Len(EntryMenu)] : n \in 0..MaxEntries }

Findings(picks) ==
    Dict1("vulnerabilities", PyList([ i \in 1..Len(picks) |-> EntryMenu[picks[i]] ]))

\* other decoded payloads: objects whose vulnerabilities value is no array,
\* objects without the key, values that are no object
OtherData ==
    << Dict1("vulnerabilities", PyNone),
       Dict1("vulnerabilities", Word("x")),
       Dict1("vulnerabilities", Dict1("severity", Word("high"))),
       Dict1("type", Word("XSS")),
       PyDict(<<>>),
       PyList(<<PyInt(3)>>),
       PyInt(7),
       PyNone >>

\* the literal json.dumps writes for a number
NumberLiteral(v) == CHOOSE l \in DOMAIN NumberValue : NumberValue[l] = v

\* json.dumps(value) with the default separators ', ' and ': '
RECURSIVE Dumps(_)
RECURSIVE DumpsJoin(_, _, _)
DumpsJoin(parts, i, acc) ==
    IF i > Len(parts) THEN acc
    ELSE DumpsJoin(parts, i + 1,
                   IF i = 1 THEN parts[i] ELSE acc \o <<",", WS>> \o parts[i])

Dumps(v) ==
    IF v.t = "none" THEN <<"null">>
    ELSE IF v.t = "bool" THEN IF v.v THEN <<"true">> ELSE <<"false">>
    ELSE IF v.t \in {"int", "float"} THEN <<NumberLiteral(v)>>
    ELSE IF v.t = "str" THEN <<QUOTE>> \o v.v \o <<QUOTE>>
    ELSE IF v.t = "list"
        THEN <<"[">> \o
             DumpsJoin([ i \in 1..Len(v.v) |-> Dumps(v.v[i]) ], 1, <<>>) \o
             <<"]">>
    ELSE <<"{">> \o
         DumpsJoin([ i \in 1..Len(v.v) |->
                       <<QUOTE>> \o v.v[i][1] \o <<QUOTE, ":", WS>> \o
                       Dumps(v.v[i][2]) ], 1, <<>>) \o
         <<"}">>

\* the response texts built around a serialized payload
JsonWraps == { "fenced_json", "fenced", "fenced_in_prose", "raw", "raw_in_prose" }

FencedWraps == { "fenced_json", "fenced", "fenced_in_prose" }

Wrapped(w, body) ==
    IF w = "fenced_json" THEN <<FENCE, JSONTAG, WS>> \o body \o <<WS, FENCE>>
    ELSE IF w = "fenced" THEN <<FENCE, WS>> \o body \o <<WS, FENCE>>
    ELSE IF w = "fenced_in_prose"
        THEN <<"Here is the analysis:", WS, FENCE, JSONTAG, WS>> \o body \o
             <<WS, FENCE, WS, "Done.">>
    ELSE IF w = "raw" THEN body
    ELSE <<"Here is the analysis:", WS>> \o body \o <<WS, "Done.">>

\* response texts that hold no JSON
ProseTexts ==
    ( "secure" :> <<"x", WS, "appears secure", WS, "no issues found">> ) @@
    ( "secure_upper" :> <<"x", WS, "APPEARS SECURE">> ) @@
    ( "secure_keyword" :> <<"no vulnerabilities", WS, "high", WS, "x">> ) @@
    ( "secure_keyword_upper" :> <<"CRITICAL", WS, "Code is secure">> ) @@
    ( "keyword" :> <<"x", WS, "high", WS, "severity", WS, "x">> ) @@
    ( "keywords" :> <<"High", WS, "medium", WS, "low">> ) @@
    ( "keyword_inside" :> <<"x", WS, "below">> ) @@
    ( "keyword_late" :> <<LONG_PROSE, WS, "critical">> ) @@
    ( "plain" :> <<"x", WS, "x">> ) @@
    ( "broken_json" :> <<"{", QUOTE, "vulnerabilities", QUOTE, ":", WS, "[">> ) @@
    ( "deep" :> <<DEEP_BRACKETS>> ) @@
    ( "deep_fenced" :>
        <<FENCE, JSONTAG, WS, "{", QUOTE, "vulnerabilities", QUOTE, ":", WS,
          DEEP_BRACKETS, "}", WS, FENCE>> ) @@
    ( "empty" :> <<>> )

ParserArgs ==
    { [file_path |-> "app.py", model_used |-> "codellama", scan_time |-> 1],
      [file_path |-> "lib/util.js", model_used |-> "mistral", scan_time |-> 2] }

-----------------------------------------------------------------------------
(* The parser's operations applied to the drawn inputs.                    *)

InitParse ==
    /\ pc = "parse_input"
    /\ model_name = "codellama"
    /\ max_chunk_lines = DEFAULT_MAX_CHUNK_LINES
    /\ language = ""
    /\ code = <<>>
    /\ chunk_start = 0
    /\ chunks = <<>>
    /\ last_iter = NoIter
    /\ \/ /\ wrap \in JsonWraps
          /\ \/ \E picks \in EntryPicks : payload = Findings(picks)
             \/ \E i \in 1..Len(OtherData) : payload = OtherData[i]
          /\ resp_text = Wrapped(wrap, Dumps(payload))
       \/ /\ wrap \in DOMAIN ProseTexts
          /\ payload = PyNone
          /\ resp_text = ProseTexts[wrap]
    /\ args \in ParserArgs
    /\ op = "none"
    /\ out = PyNone
    /\ ScanIdle
    /\ RunIdle
    /\ SortIdle
    /\ CacheIdle

CallExtractJson ==
    /\ pc = "parse_input"
    /\ op' = "extract_json"
    /\ out' = extract_json(resp_text)
    /\ pc' = IF out'.t = "raised" THEN "parse_raised" ELSE "parse_done"
    /\ UNCHANGED <<model_name, chunkVars, payload, wrap, resp_text, args, scanVars, io_log,
                   runVars, sortVars, cacheVars>>

\* parse_response hands over whatever extract_json gave but None
CallParseVulnerabilities ==
    /\ pc = "parse_input"
    /\ ~IsNone(payload)
    /\ op' = "parse_vulnerabilities"
    /\ out' = parse_vulnerabilities(payload)
    /\ pc' = "parse_done"
    /\ UNCHANGED <<model_name, chunkVars, payload, wrap, resp_text, args, scanVars, io_log,
                   runVars, sortVars, cacheVars>>

CallParseResponse ==
    /\ pc = "parse_input"
    /\ op' = "parse_response"
    /\ out' = parse_response(resp_text, args.file_path, args.model_used, args.scan_time)
    /\ pc' = IF Raises(out') THEN "parse_raised" ELSE "parse_done"
    /\ UNCHANGED <<model_name, chunkVars, payload, wrap, resp_text, args, scanVars, io_log,
                   runVars, sortVars, cacheVars>>

CallParseLegacy ==
    /\ pc = "parse_input"
    /\ op' = "parse_legacy_response"
    /\ out' = parse_legacy_response(resp_text, args.file_path, args.model_used,
                                    args.scan_time)
    /\ pc' = "parse_done"
    /\ UNCHANGED <<model_name, chunkVars, payload, wrap, resp_text, args, scanVars, io_log,
                   runVars, sortVars, cacheVars>>

NextParse ==
    \/ CallExtractJson
    \/ CallParseVulnerabilities
    \/ CallParseResponse
    \/ CallParseLegacy

SpecParse == InitParse /\ [][NextParse]_vars

-----------------------------------------------------------------------------
(* scanner.py: CodeScanner.scan_file, _scan_file_single and                *)
(* _scan_file_chunked.  The model client is the environment: each dispatch *)
(* returns one of the dicts analyze_code can return.                       *)

\* the files scanned: a short one, one that cannot be read, one of long
\* lines, one whose second chunk starts at line 501, one of three chunks,
\* a source file that cannot be read
ScanFileMenu ==
    << [ path |-> "app.py", suffix |-> ".py", readable |-> TRUE,
         lines |-> Repeat([head |-> "x", len |-> 30], 3) ],
       [ path |-> "data.bin", suffix |-> ".bin", readable |-> FALSE,
         lines |-> <<>> ],
       [ path |-> "min.js", suffix |-> ".js", readable |-> TRUE,
         lines |-> Repeat([head |-> "x", len |-> 600], 12) ],
       [ path |-> "big.py", suffix |-> ".py", readable |-> TRUE,
         lines |-> Repeat([head |-> "x", len |-> 7], 500) \o
                   Repeat([head |-> "x", len |-> 600], 1) ],
       [ path |-> "gen.go", suffix |-> ".go", readable |-> TRUE,
         lines |-> Repeat([head |-> "x", len |-> 600], 22) ],
       [ path |-> "locked.py", suffix |-> ".py", readable |-> FALSE,
         lines |-> <<>> ] >>

\* the texts the model answers with
ScanPayloads ==
    << Findings(<<1, 3>>), Findings(<<4, 2>>), Findings(<<7>>), Findings(<<>>),
       OtherData[6] >>

ScanTexts ==
    { Wrapped("fenced_json", Dumps(ScanPayloads[i])) : i \in 1..Len(ScanPayloads) }
        \cup { ProseTexts[k] : k \in {"secure", "keyword", "plain", "deep"} }

\* analyze_code's return value; response is None when success is False and
\* is not read then
NoResponse == <<>>

AIResult(success, response, elapsed_time, error) ==
    [ success |-> success, response |-> response,
      elapsed_time |-> elapsed_time, error |-> error ]

AIResults ==
    { AIResult(TRUE, t, 2, NoError) : t \in ScanTexts }
        \cup { AIResult(FALSE, NoResponse, 120, "Request timed out"),
               AIResult(FALSE, NoResponse, 1, "Request failed: <exception>") }

READ_FAILED == "Failed to read file"

\* the last dispatch's ai_result
ai_result == ai_results[Len(ai_results)]

\* the result of a failed read without its message
ReadFailedResult_NoError(path, model) ==
    ScanResult(path, <<>>, 0, model, FALSE, NoError)

\* lines 70-75
ReadFailedResult(path, model) ==
    ScanResult(path, <<>>, 0, model, FALSE, READ_FAILED)

\* lines 98-105: error and elapsed_time are keys of every dict the clients
\* return
FailedResult_NoElapsed(path, model, ai) ==
    ScanResult(path, <<>>, 0, model, FALSE, ai.error)

FailedResult(path, model, ai) ==
    ScanResult(path, <<>>, ai.elapsed_time, model, FALSE, ai.error)

\* line 116: the legacy parser is tried when JSON parsing failed
needs_legacy_WhenEmpty(r) == r.vulnerabilities = <<>>

needs_legacy(r) == ~r.success

\* bool(value)
Truthy(value) ==
    IF value.t = "none" THEN FALSE
    ELSE IF value.t = "bool" THEN value.v
    ELSE IF value.t \in {"int", "float"} THEN value.v # 0
    ELSE Len(value.v) > 0

\* the offset with the - 1 forgotten
Offset_NoMinusOne(line, start_line) ==
    IF line.t = "float" THEN PyFloat(line.v + 100 * start_line)
    ELSE PyInt((IF line.t = "bool" THEN 1 ELSE line.v) + start_line)

\* line + (chunk.start_line - 1) for a number (a float is in hundredths)
Offset(line, start_line) ==
    IF line.t = "float" THEN PyFloat(line.v + 100 * (start_line - 1))
    ELSE PyInt((IF line.t = "bool" THEN 1 ELSE line.v) + (start_line - 1))

\* lines 168-169: `if vuln.line: vuln.line += chunk.start_line - 1`; the
\* sum of a str, list or dict and an int raises TypeError
AdjustLine(vuln, start_line) ==
    IF ~Truthy(vuln.line) THEN Returned(vuln)
    ELSE IF vuln.line.t \in {"int", "float", "bool"}
        THEN Returned([ vuln EXCEPT !.line = Offset(vuln.line, start_line) ])
    ELSE Raised

\* lines 167-169
AdjustLines(vulns, start_line) ==
    LET each == [ i \in 1..Len(vulns) |-> AdjustLine(vulns[i], start_line) ]
    IN  IF \E i \in 1..Len(each) : ~each[i].ok THEN Raised
        ELSE Returned([ i \in 1..Len(each) |-> each[i].val ])

\* all_vulnerabilities.extend put before the list instead of after it
extend_Front(list, more) == more \o list

\* line 171: all_vulnerabilities.extend(chunk_result.vulnerabilities)
extend(list, more) == list \o more

\* lines 174-180
MergedResult(path, vulns, time, model) ==
    ScanResult(path, vulns, time, model, TRUE, NoError)

Init ==
    /\ pc = "scan_file"
    /\ model_name \in ModelNames
    /\ max_chunk_lines = DEFAULT_MAX_CHUNK_LINES
    /\ \E i \in 1..Len(ScanFileMenu) :
          /\ scan_path = ScanFileMenu[i].path
          /\ language = ScanFileMenu[i].suffix
          /\ readable = ScanFileMenu[i].readable
          /\ code = ScanFileMenu[i].lines
    /\ use_context_manager \in BOOLEAN
    /\ chunk_start = 0
    /\ chunks = <<>>
    /\ last_iter = NoIter
    /\ ParseIdle
    /\ ai_results = <<>>
    /\ chunk_pos = 0
    /\ all_vulnerabilities = <<>>
    /\ total_scan_time = 0
    /\ scan_result = PyNone
    /\ calls = <<>>
    /\ RunIdle
    /\ SortIdle
    /\ CacheIdle

\* lines 67-75: read_file returned None
ReadFailed ==
    /\ pc = "scan_file"
    /\ ~readable
    /\ scan_result' = ReadFailedResult(scan_path, model_name)
    /\ pc' = "read_failed"
    /\ io_log' = io_log \o <<"read_file">>
    /\ UNCHANGED <<model_name, chunkVars, parseVars, runVars, sortVars, cacheVars,
                   scan_path, readable,
                   use_context_manager, ai_results, chunk_pos,
                   all_vulnerabilities, total_scan_time, calls>>

\* lines 77-80 and 84-96: the single path, up to the client's answer
SingleDispatch ==
    /\ pc = "scan_file"
    /\ readable
    /\ ~(use_context_manager /\ needs_chunking(code))
    /\ \E r \in AIResults : ai_results' = <<r>>
    /\ pc' = "single_dispatched"
    /\ io_log' = io_log \o <<"read_file", "analyze_code">>
    /\ UNCHANGED <<model_name, chunkVars, parseVars, runVars, sortVars, cacheVars,
                   scan_path, readable,
                   use_context_manager, chunk_pos, all_vulnerabilities,
                   total_scan_time, scan_result, calls>>

\* lines 98-105
SingleFailed ==
    /\ pc = "single_dispatched"
    /\ ~ai_result.success
    /\ scan_result' = FailedResult(scan_path, model_name, ai_result)
    /\ pc' = "single_done"
    /\ UNCHANGED <<model_name, chunkVars, parseVars, io_log, runVars,
                   sortVars, cacheVars, scan_path, readable,
                   use_context_manager, ai_results, chunk_pos,
                   all_vulnerabilities, total_scan_time, calls>>

\* lines 107-113; an exception of parse_response leaves scan_file
SingleParse ==
    /\ pc = "single_dispatched"
    /\ ai_result.success
    /\ LET result == parse_response(ai_result.response, scan_path, model_name,
                                    ai_result.elapsed_time)
       IN  IF Raises(result)
               THEN /\ pc' = "scan_raised"
                    /\ UNCHANGED scan_result
           ELSE /\ scan_result' = result
                /\ pc' = "single_parsed"
    /\ calls' = Append(calls, "parse_response")
    /\ UNCHANGED <<model_name, chunkVars, parseVars, io_log, runVars,
                   sortVars, cacheVars, scan_path, readable,
                   use_context_manager, ai_results, chunk_pos,
                   all_vulnerabilities, total_scan_time>>

\* lines 116-122
SingleLegacy ==
    /\ pc = "single_parsed"
    /\ needs_legacy(scan_result)
    /\ scan_result' = parse_legacy_response(ai_result.response, scan_path,
                                            model_name, ai_result.elapsed_time)
    /\ calls' = Append(calls, "parse_legacy_response")
    /\ pc' = "single_done"
    /\ UNCHANGED <<model_name, chunkVars, parseVars, io_log, runVars,
                   sortVars, cacheVars, scan_path, readable,
                   use_context_manager, ai_results, chunk_pos,
                   all_vulnerabilities, total_scan_time>>

\* line 124
SingleReturn ==
    /\ pc = "single_parsed"
    /\ ~needs_legacy(scan_result)
    /\ pc' = "single_done"
    /\ UNCHANGED <<model_name, chunkVars, parseVars, scanVars, io_log,
                   runVars, sortVars, cacheVars>>

\* lines 77-78 and 128-134
ChunkedBegin ==
    /\ pc = "scan_file"
    /\ readable
    /\ use_context_manager /\ needs_chunking(code)
    /\ chunks' = chunk_code(code, language)
    /\ all_vulnerabilities' = <<>>
    /\ total_scan_time' = 0
    /\ chunk_pos' = 0
    /\ pc' = "scan_chunks"
    /\ io_log' = io_log \o <<"read_file">>
    /\ UNCHANGED <<model_name, max_chunk_lines, language, code, chunk_start,
                   last_iter, parseVars, runVars, sortVars, cacheVars,
                   scan_path, readable,
                   use_context_manager, ai_results, scan_result, calls>>

\* lines 136-154: the next chunk is sent
ChunkDispatch ==
    /\ pc = "scan_chunks"
    /\ chunk_pos < Len(chunks)
    /\ \E r \in AIResults :
          /\ ai_results' = Append(ai_results, r)
          /\ total_scan_time' = total_scan_time + r.elapsed_time
    /\ pc' = "chunk_dispatched"
    /\ io_log' = io_log \o <<"analyze_code">>
    /\ UNCHANGED <<model_name, chunkVars, parseVars, runVars, sortVars, cacheVars,
                   scan_path, readable,
                   use_context_manager, chunk_pos, all_vulnerabilities,
                   scan_result, calls>>

\* line 156: a chunk whose dispatch failed is passed over
ChunkSkip ==
    /\ pc = "chunk_dispatched"
    /\ ~ai_result.success
    /\ chunk_pos' = chunk_pos + 1
    /\ pc' = "scan_chunks"
    /\ UNCHANGED <<model_name, chunkVars, parseVars, io_log, runVars,
                   sortVars, cacheVars, scan_path, readable,
                   use_context_manager, ai_results, all_vulnerabilities,
                   total_scan_time, scan_result, calls>>

\* lines 156-171: the TypeError of line 169 leaves scan_file
ChunkParse ==
    /\ pc = "chunk_dispatched"
    /\ ai_result.success
    /\ calls' = Append(calls, "parse_response")
    /\ LET chunk == chunks[chunk_pos + 1]
           chunk_result == parse_response(ai_result.response, scan_path,
                                          model_name, ai_result.elapsed_time)
           adjusted == AdjustLines(chunk_result.vulnerabilities, chunk.start_line)
       IN  IF Raises(chunk_result)
               THEN /\ pc' = "scan_raised"
                    /\ UNCHANGED <<chunk_pos, all_vulnerabilities>>
           ELSE IF ~chunk_result.success
               THEN /\ chunk_pos' = chunk_pos + 1
                    /\ pc' = "scan_chunks"
                    /\ UNCHANGED all_vulnerabilities
           ELSE IF ~adjusted.ok
               THEN /\ pc' = "scan_raised"
                    /\ UNCHANGED <<chunk_pos, all_vulnerabilities>>
           ELSE /\ all_vulnerabilities' = extend(all_vulnerabilities, adjusted.val)
                /\ chunk_pos' = chunk_pos + 1
                /\ pc' = "scan_chunks"
    /\ UNCHANGED <<model_name, chunkVars, parseVars, io_log, runVars,
                   sortVars, cacheVars, scan_path, readable,
                   use_context_manager, ai_results, total_scan_time, scan_result>>

\* lines 173-182
ChunkedReturn ==
    /\ pc = "scan_chunks"
    /\ chunk_pos = Len(chunks)
    /\ scan_result' = MergedResult(scan_path, all_vulnerabilities,
                                   total_scan_time, model_name)
    /\ pc' = "chunked_done"
    /\ UNCHANGED <<model_name, chunkVars, parseVars, io_log, runVars,
                   sortVars, cacheVars, scan_path, readable,
                   use_context_manager, ai_results, chunk_pos,
                   all_vulnerabilities, total_scan_time, calls>>

Next ==
    \/ ReadFailed
    \/ SingleDispatch
    \/ SingleFailed
    \/ SingleParse
    \/ SingleLegacy
    \/ SingleReturn
    \/ ChunkedBegin
    \/ ChunkDispatch
    \/ ChunkSkip
    \/ ChunkParse
    \/ ChunkedReturn

Spec == Init /\ [][Next]_vars

-----------------------------------------------------------------------------
(* main.py: main; scanner.py: scan and CodeScanner.scan_directory;         *)
(* parser.py: FileParser.discover_files.  One invocation of the CLI, from  *)
(* its arguments to the exit status of the process.                        *)

\* the extensions of SUPPORTED_EXTENSIONS among those of the menu
SupportedSuffixes == {".py", ".js", ".go"}

\* the places of the menu in the order of their paths, which is the order
\* of sorted(files)
PathOrder == <<1, 4, 2, 5, 6, 3>>

\* what the scanned path holds: places of the menu
Trees == { {}, {1}, {1, 2}, {1, 6}, {3, 6}, {1, 3}, {4, 6}, {3} }

\* discover_files(path): the supported files, sorted
discover_files(tree) ==
    LET Kept(i) == i \in tree /\ ScanFileMenu[i].suffix \in SupportedSuffixes
    IN  SelectSeq(PathOrder, Kept)

Formats == {"terminal", "html", "json"}

CliArgs ==
    { [ path_exists |-> e, format |-> f, output |-> o, listing |-> t ] :
        e \in BOOLEAN, f \in Formats, o \in BOOLEAN, t \in Trees }

\* scanner.py line 377: `if not ai_client.test_connection()`
connection_failed_Never(ok) == FALSE

connection_failed(ok) == ~ok

\* scan_directory line 232 with the failed results left out
append_IfSuccess(list, item) == IF item.success THEN Append(list, item) ELSE list

\* scan_directory line 232: self.results.append(result)
append(list, item) == Append(list, item)

CRITICAL_HIGH == {"CRITICAL", "HIGH"}

\* main.py lines 134-146 with the severities not looked at
ExitStatus_FailedOnly(rs) ==
    IF \E i \in 1..Len(rs) : ~rs[i].success THEN 1 ELSE 0

\* main.py lines 134-146; main returning ends the process with status 0
ExitStatus(rs) ==
    IF \E i \in 1..Len(rs) : ~rs[i].success THEN 1
    ELSE IF \E i \in 1..Len(rs) :
               \E j \in 1..Len(rs[i].vulnerabilities) :
                   rs[i].vulnerabilities[j].severity \in CRITICAL_HIGH
        THEN 1
    ELSE 0

\* the status of a process that an uncaught exception or sys.exit(1) ends
EXIT_FAILURE == 1

InitCli ==
    /\ pc = "main"
    /\ model_name \in ModelNames
    /\ max_chunk_lines = DEFAULT_MAX_CHUNK_LINES
    /\ language = ""
    /\ code = <<>>
    /\ chunk_start = 0
    /\ chunks = <<>>
    /\ last_iter = NoIter
    /\ ParseIdle
    /\ SortIdle
    /\ CacheIdle
    /\ scan_path = ""
    /\ readable = FALSE
    /\ use_context_manager = TRUE
    /\ ai_results = <<>>
    /\ chunk_pos = 0
    /\ all_vulnerabilities = <<>>
    /\ total_scan_time = 0
    /\ scan_result = PyNone
    /\ calls = <<>>
    /\ io_log = <<>>
    /\ cli_args \in CliArgs
    /\ connected \in BOOLEAN
    /\ discovered = <<>>
    /\ file_pos = 0
    /\ results = <<>>
    /\ exit_status = 0

\* main.py lines 93-100: the path does not exist, or the format needs an
\* output file that was not given
MainRejects ==
    /\ pc = "main"
    /\ \/ ~cli_args.path_exists
       \/ cli_args.format \in {"html", "json"} /\ ~cli_args.output
    /\ exit_status' = EXIT_FAILURE
    /\ pc' = "exited"
    /\ UNCHANGED <<model_name, chunkVars, parseVars, scanVars, io_log, sortVars, cacheVars,
                   cli_args, connected, discovered, file_pos, results>>

\* main.py lines 102-118 and scanner.py lines 344-368
MainScan ==
    /\ pc = "main"
    /\ cli_args.path_exists
    /\ ~(cli_args.format \in {"html", "json"} /\ ~cli_args.output)
    /\ pc' = "scan"
    /\ UNCHANGED <<model_name, chunkVars, parseVars, scanVars, io_log, runVars,
                   sortVars, cacheVars>>

\* scanner.py lines 377-379
ScanNoConnection ==
    /\ pc = "scan"
    /\ connection_failed(connected)
    /\ results' = <<>>
    /\ pc' = "scan_returned"
    /\ UNCHANGED <<model_name, chunkVars, parseVars, scanVars, io_log, sortVars, cacheVars,
                   cli_args, connected, discovered, file_pos, exit_status>>

\* scanner.py lines 384-389 and 195-208
Discover ==
    /\ pc = "scan"
    /\ ~connection_failed(connected)
    /\ io_log' = Append(io_log, "discover_files")
    /\ discovered' = discover_files(cli_args.listing)
    /\ results' = <<>>
    /\ file_pos' = 0
    /\ pc' = IF discovered' = <<>> THEN "scan_returned" ELSE "next_file"
    /\ UNCHANGED <<model_name, chunkVars, parseVars, scanVars, sortVars, cacheVars,
                   cli_args, connected, exit_status>>

\* scanner.py lines 224-231: scan_file is called for the next file
NextFile ==
    /\ pc = "next_file"
    /\ file_pos < Len(discovered)
    /\ LET f == ScanFileMenu[discovered[file_pos + 1]]
       IN  /\ scan_path' = f.path
           /\ language' = f.suffix
           /\ readable' = f.readable
           /\ code' = f.lines
    /\ ai_results' = <<>>
    /\ chunks' = <<>>
    /\ chunk_pos' = 0
    /\ all_vulnerabilities' = <<>>
    /\ total_scan_time' = 0
    /\ scan_result' = PyNone
    /\ calls' = <<>>
    /\ pc' = "scan_file"
    /\ UNCHANGED <<model_name, max_chunk_lines, chunk_start, last_iter,
                   parseVars, use_context_manager, io_log, runVars, sortVars, cacheVars>>

\* scanner.py lines 231-234: scan_file returned
FileScanned ==
    /\ pc \in {"read_failed", "single_done", "chunked_done"}
    /\ results' = append(results, scan_result)
    /\ file_pos' = file_pos + 1
    /\ pc' = "next_file"
    /\ UNCHANGED <<model_name, chunkVars, parseVars, scanVars, io_log, sortVars, cacheVars,
                   cli_args, connected, discovered, exit_status>>

\* scanner.py lines 236-239 and 389-395
DirectoryReturn ==
    /\ pc = "next_file"
    /\ file_pos = Len(discovered)
    /\ pc' = "scan_returned"
    /\ UNCHANGED <<model_name, chunkVars, parseVars, scanVars, io_log, runVars,
                   sortVars, cacheVars>>

\* the exception that left scan_file leaves scan_directory, scan and main:
\* none of them catches it
ScanRaised ==
    /\ pc = "scan_raised"
    /\ exit_status' = EXIT_FAILURE
    /\ pc' = "exited"
    /\ UNCHANGED <<model_name, chunkVars, parseVars, scanVars, io_log, sortVars, cacheVars,
                   cli_args, connected, discovered, file_pos, results>>

\* main.py lines 120-121
MainNoResults ==
    /\ pc = "scan_returned"
    /\ results = <<>>
    /\ exit_status' = EXIT_FAILURE
    /\ pc' = "exited"
    /\ UNCHANGED <<model_name, chunkVars, parseVars, scanVars, io_log, sortVars, cacheVars,
                   cli_args, connected, discovered, file_pos, results>>

\* main.py lines 124-131: the report cannot be written, write_text raises
MainReportFailed ==
    /\ pc = "scan_returned"
    /\ results # <<>>
    /\ cli_args.format \in {"html", "json"}
    /\ exit_status' = EXIT_FAILURE
    /\ pc' = "exited"
    /\ UNCHANGED <<model_name, chunkVars, parseVars, scanVars, io_log, sortVars, cacheVars,
                   cli_args, connected, discovered, file_pos, results>>

\* main.py lines 124-146: the report, if any, is written
MainExit ==
    /\ pc = "scan_returned"
    /\ results # <<>>
    /\ exit_status' = ExitStatus(results)
    /\ pc' = "exited"
    /\ UNCHANGED <<model_name, chunkVars, parseVars, scanVars, io_log, sortVars, cacheVars,
                   cli_args, connected, discovered, file_pos, results>>

NextCli ==
    \/ MainRejects
    \/ MainScan
    \/ ScanNoConnection
    \/ Discover
    \/ NextFile
    \/ ReadFailed
    \/ SingleDispatch
    \/ SingleFailed
    \/ SingleParse
    \/ SingleLegacy
    \/ SingleReturn
    \/ ChunkedBegin
    \/ ChunkDispatch
    \/ ChunkSkip
    \/ ChunkParse
    \/ ChunkedReturn
    \/ FileScanned
    \/ DirectoryReturn
    \/ ScanRaised
    \/ MainNoResults
    \/ MainReportFailed
    \/ MainExit

SpecCli == InitCli /\ [][NextCli]_vars

-----------------------------------------------------------------------------
(* models.py: Severity.__lt__ applied by sorted() to lists of severities.  *)

Severities == { SeverityLiterals[l] : l \in DOMAIN SeverityLiterals }

InitOrder ==
    /\ pc = "sort_input"
    /\ model_name = "codellama"
    /\ max_chunk_lines = DEFAULT_MAX_CHUNK_LINES
    /\ language = ""
    /\ code = <<>>
    /\ chunk_start = 0
    /\ chunks = <<>>
    /\ last_iter = NoIter
    /\ ParseIdle
    /\ ScanIdle
    /\ RunIdle
    /\ unsorted \in UNION { [1..n -> Severities] : n \in 0..MaxSeverities }
    /\ in_order = <<>>
    /\ CacheIdle

SortBySeverity ==
    /\ pc = "sort_input"
    /\ in_order' = sorted(unsorted)
    /\ pc' = "sorted"
    /\ UNCHANGED <<model_name, chunkVars, parseVars, scanVars, io_log, runVars,
                   unsorted, cacheVars>>

NextOrder == SortBySeverity

SpecOrder == InitOrder /\ [][NextOrder]_vars

-----------------------------------------------------------------------------
(* cache_manager.py: CacheManager over the table scan_cache.  The column    *)
(* scanned_at, which no query reads, is left out.                           *)

\* the calls made on one CacheManager
MaxCacheOps == 3

CachePaths == {"app.py", "big.py"}

\* prompts.py: the prompt types get_prompt knows, two of them
PromptTypes == {"standard", "quick"}

\* what a file holds; a file that cannot be opened holds UNREADABLE
Contents == {"v1", "v2"}
UNREADABLE == "<unreadable>"

\* hashlib.sha256(content).hexdigest(): one digest per content
sha256 == ( "v1" :> "9f2c" ) @@ ( "v2" :> "41ab" )

\* _calculate_file_hash: "" when the file cannot be read
calculate_file_hash(path) ==
    IF file_content[path] = UNREADABLE THEN "" ELSE sha256[file_content[path]]

\* the results a scan of the file with the model may have given
CacheResults(path, model) ==
    << ScanResult(path, <<>>, 3, model, TRUE, NoError),
       ScanResult(path,
                  << Vulnerability(Word("SQL Injection"), "CRITICAL", PyInt(3),
                                   Word("execute(q)"), Word("query built from input"),
                                   EmptyStr, PyNone, PyFloat(95)) >>,
                  7, model, TRUE, NoError) >>

\* severity.value
SeverityValue(member) ==
    CHOOSE l \in DOMAIN SeverityLiterals : SeverityLiterals[l] = member

\* _serialize_result: lines 209-229
serialize_vulnerability(v) ==
    PyDict(<< <<Key("type"), v.type>>,
              <<Key("severity"), Word(SeverityValue(v.severity))>>,
              <<Key("line"), v.line>>,
              <<Key("code_snippet"), v.code_snippet>>,
              <<Key("description"), v.description>>,
              <<Key("recommendation"), v.recommendation>>,
              <<Key("cwe_id"), v.cwe_id>>,
              <<Key("confidence"), v.confidence>> >>)

serialize_result(result) ==
    PyDict(<< <<Key("file_path"), Word(result.file_path)>>,
              <<Key("vulnerabilities"),
                PyList([ i \in 1..Len(result.vulnerabilities) |->
                           serialize_vulnerability(result.vulnerabilities[i]) ])>>,
              <<Key("scan_time"), PyInt(result.scan_time)>>,
              <<Key("model_used"), Word(result.model_used)>>,
              <<Key("success"), PyBool(result.success)>>,
              <<Key("error"),
                IF result.error = NoError THEN PyNone ELSE Word(result.error)>> >>)

\* `key in d`
KeyIn(d, key) == \E i \in 1..Len(d.v) : d.v[i][1] = key

\* the keys read with v[...]: a missing one raises KeyError
RequiredOfVulnerability ==
    { Key("type"), Key("severity"), Key("line"), Key("code_snippet"),
      Key("description"), Key("recommendation") }

RequiredOfResult ==
    { Key("file_path"), Key("scan_time"), Key("model_used"), Key("success") }

\* _deserialize_result: lines 233-245
deserialize_vulnerability(v) ==
    IF v.t # "dict" THEN Raised
    ELSE IF \E k \in RequiredOfVulnerability : ~KeyIn(v, k) THEN Raised
    ELSE LET sev == Severity(DictGet(v, Key("severity"), PyNone))
         IN  IF ~sev.ok THEN Raised
             ELSE Returned(Vulnerability(
                      DictGet(v, Key("type"), PyNone),
                      sev.val,
                      DictGet(v, Key("line"), PyNone),
                      DictGet(v, Key("code_snippet"), PyNone),
                      DictGet(v, Key("description"), PyNone),
                      DictGet(v, Key("recommendation"), PyNone),
                      DictGet(v, Key("cwe_id"), PyNone),
                      DictGet(v, Key("confidence"), PyFloat(100))))

\* _deserialize_result: lines 231-254
deserialize_result(data) ==
    IF data.t # "dict" THEN Raised
    ELSE IF \E k \in RequiredOfResult : ~KeyIn(data, k) THEN Raised
    ELSE LET items == DictGet(data, Key("vulnerabilities"), PyList(<<>>))
             error == DictGet(data, Key("error"), PyNone)
         IN  IF items.t # "list" THEN Raised
             ELSE IF \E i \in 1..Len(items.v) :
                        ~deserialize_vulnerability(items.v[i]).ok
                 THEN Raised
             ELSE Returned(ScanResult(
                      DictGet(data, Key("file_path"), PyNone).v[1],
                      [ i \in 1..Len(items.v) |->
                          deserialize_vulnerability(items.v[i]).val ],
                      DictGet(data, Key("scan_time"), PyNone).v,
                      DictGet(data, Key("model_used"), PyNone).v[1],
                      DictGet(data, Key("success"), PyNone).v,
                      IF IsNone(error) THEN NoError ELSE error.v[1]))

\* a row of scan_cache
Row(file_path, file_hash, model_used, prompt_type, scan_time, result_json) ==
    [ file_path |-> file_path, file_hash |-> file_hash, model_used |-> model_used,
      prompt_type |-> prompt_type, scan_time |-> scan_time,
      result_json |-> result_json ]

\* INSERT OR REPLACE with file_path the PRIMARY KEY of the table (line 38):
\* the row that has the new row's file_path is deleted
InsertOrReplace(table, row) ==
    { r \in table : r.file_path # row.file_path } \cup {row}

\* get_cached_result returned None, or a ScanResult
NotCached == [found |-> FALSE, result |-> PyNone]
Cached(result) == [found |-> TRUE, result |-> result]

\* cache_result: lines 122-151
cache_result(table, file_path, model_used, prompt_type, result) ==
    LET file_hash == calculate_file_hash(file_path)
    IN  IF file_hash = "" THEN table
        ELSE InsertOrReplace(table,
                 Row(file_path, file_hash, model_used, prompt_type,
                     result.scan_time, Dumps(serialize_result(result))))

\* get_cached_result: lines 74-120
get_cached_result(table, file_path, model_used, prompt_type) ==
    LET current_hash == calculate_file_hash(file_path)
        rows == { r \in table : /\ r.file_path = file_path
                                /\ r.model_used = model_used
                                /\ r.prompt_type = prompt_type }
    IN  IF current_hash = "" THEN NotCached
        ELSE IF rows = {} THEN NotCached
        ELSE LET row == CHOOSE r \in rows : TRUE
             IN  IF row.file_hash # current_hash THEN NotCached
                 ELSE LET result_data == json_loads(row.result_json)
                      IN  IF ~result_data.ok THEN NotCached
                          ELSE LET r == deserialize_result(result_data.val)
                               IN  IF r.ok THEN Cached(r.val) ELSE NotCached

\* invalidate_file: lines 153-164
invalidate_file(table, file_path) == { r \in table : r.file_path # file_path }

\* a call on the CacheManager, or a write to a file, as the log keeps it
CacheOp(name, file_path, model_used, prompt_type, result) ==
    [ op |-> name, file_path |-> file_path, model_used |-> model_used,
      prompt_type |-> prompt_type, result |-> result ]

InitCache ==
    /\ pc = "cache"
    /\ model_name = "codellama"
    /\ max_chunk_lines = DEFAULT_MAX_CHUNK_LINES
    /\ language = ""
    /\ code = <<>>
    /\ chunk_start = 0
    /\ chunks = <<>>
    /\ last_iter = NoIter
    /\ ParseIdle
    /\ ScanIdle
    /\ RunIdle
    /\ SortIdle
    /\ scan_cache = {}
    /\ file_content \in [CachePaths -> {"v1", UNREADABLE}]
    /\ cached = NotCached
    /\ cache_log = <<>>

CacheResult ==
    /\ pc = "cache"
    /\ Len(cache_log) < MaxCacheOps
    /\ \E p \in CachePaths, m \in ModelNames, t \in PromptTypes, k \in 1..2 :
          /\ scan_cache' = cache_result(scan_cache, p, m, t, CacheResults(p, m)[k])
          /\ cache_log' = Append(cache_log, CacheOp("cache_result", p, m, t, k))
    /\ UNCHANGED <<pc, model_name, chunkVars, parseVars, scanVars, io_log, runVars,
                   sortVars, file_content, cached>>

GetCachedResult ==
    /\ pc = "cache"
    /\ Len(cache_log) < MaxCacheOps
    /\ \E p \in CachePaths, m \in ModelNames, t \in PromptTypes :
          /\ cached' = get_cached_result(scan_cache, p, m, t)
          /\ cache_log' = Append(cache_log, CacheOp("get_cached_result", p, m, t, 0))
    /\ UNCHANGED <<pc, model_name, chunkVars, parseVars, scanVars, io_log, runVars,
                   sortVars, scan_cache, file_content>>

InvalidateFile ==
    /\ pc = "cache"
    /\ Len(cache_log) < MaxCacheOps
    /\ \E p \in CachePaths :
          /\ scan_cache' = invalidate_file(scan_cache, p)
          /\ cache_log' = Append(cache_log, CacheOp("invalidate_file", p, "", "", 0))
    /\ UNCHANGED <<pc, model_name, chunkVars, parseVars, scanVars, io_log, runVars,
                   sortVars, file_content, cached>>

\* clear_cache: lines 166-172
ClearCache ==
    /\ pc = "cache"
    /\ Len(cache_log) < MaxCacheOps
    /\ scan_cache' = {}
    /\ cache_log' = Append(cache_log, CacheOp("clear_cache", "", "", "", 0))
    /\ UNCHANGED <<pc, model_name, chunkVars, parseVars, scanVars, io_log, runVars,
                   sortVars, file_content, cached>>

\* the file is written by someone else between two calls
WriteFile ==
    /\ pc = "cache"
    /\ Len(cache_log) < MaxCacheOps
    /\ \E p \in CachePaths, c \in Contents \cup {UNREADABLE} :
          /\ c # file_content[p]
          /\ file_content' = [file_content EXCEPT ![p] = c]
          /\ cache_log' = Append(cache_log, CacheOp("write_file", p, "", "", 0))
    /\ UNCHANGED <<pc, model_name, chunkVars, parseVars, scanVars, io_log, runVars,
                   sortVars, scan_cache, cached>>

NextCache ==
    \/ CacheResult
    \/ GetCachedResult
    \/ InvalidateFile
    \/ ClearCache
    \/ WriteFile

SpecCache == InitCache /\ [][NextCache]_vars

-----------------------------------------------------------------------------
(* Claims about chunk_code, checked under SpecChunk.                       *)

ChunkCodeReturned == pc = "chunk_done"

\* C1: when needs_chunking(code) holds (max_chunk_lines >= 1), the chunks
\* returned by chunk_code, in chunk_index order, are contiguous, do not
\* overlap and cover exactly lines 1..N: the first starts at line 1, each next
\* one starts at the previous end_line + 1, and the last ends at line N.
C1_ChunksCoverFile ==
    (ChunkCodeReturned /\ needs_chunking(code) /\ max_chunk_lines >= 1) =>
        /\ Len(chunks) >= 1
        /\ chunks[1].start_line = 1
        /\ chunks[Len(chunks)].end_line = LineCount(code)
        /\ \A i \in 1..Len(chunks) :
              /\ chunks[i].chunk_index = i - 1
              /\ chunks[i].start_line <= chunks[i].end_line
        /\ \A i \in 1..(Len(chunks) - 1) :
              chunks[i + 1].start_line = chunks[i].end_line + 1

\* a file split in three chunks or more, one of them cut short of
\* max_chunk_lines by the boundary search or the shrink loop
C1_Witness ==
    /\ ChunkCodeReturned /\ needs_chunking(code)
    /\ Len(chunks) >= 3
    /\ \E i \in 1..(Len(chunks) - 1) :
          /\ chunks[i].end_line - chunks[i].start_line + 1 < max_chunk_lines
          /\ chunks[i].end_line - chunks[i].start_line + 1 >= MIN_CHUNK_LINES

\* C2: when needs_chunking(code) holds, every chunk returned by chunk_code
\* is within the per-chunk token budget, estimate_tokens(chunk.content) <=
\* max_code_tokens, also when single lines are very long.
C2_ChunksWithinBudget ==
    (ChunkCodeReturned /\ needs_chunking(code)) =>
        \A i \in 1..Len(chunks) :
            estimate_tokens(chunks[i].content) <= max_code_tokens

-----------------------------------------------------------------------------
(* Claims about scan_file, checked under Spec.                             *)

\* what parse_response made of the answer to the i-th dispatch
ParsedAnswer(i) ==
    parse_response(ai_results[i].response, scan_path, model_name,
                   ai_results[i].elapsed_time)

\* the findings of the i-th chunk as the model reported them: none when the
\* dispatch failed or parse_response reported failure
ChunkFindings(i) ==
    IF ai_results[i].success /\ ParsedAnswer(i).success
        THEN ParsedAnswer(i).vulnerabilities
    ELSE <<>>

\* how many findings the chunks before the i-th reported
RECURSIVE FindingsBefore(_)
FindingsBefore(i) ==
    IF i = 1 THEN 0 ELSE FindingsBefore(i - 1) + Len(ChunkFindings(i - 1))

\* C3: in the chunked path, a finding that a successfully dispatched and
\* successfully parsed chunk reported at the chunk-relative integer line
\* L >= 1 is in the merged ScanResult with line L + (chunk.start_line - 1),
\* and a finding reported without a line keeps line None.
C3_LinesMadeFileRelative ==
    pc = "chunked_done" =>
        \A i \in 1..Len(chunks) :
            \A j \in 1..Len(ChunkFindings(i)) :
                LET f == ChunkFindings(i)[j]
                    merged == scan_result.vulnerabilities[FindingsBefore(i) + j]
                IN  /\ (f.line.t = "int" /\ f.line.v >= 1) =>
                           VulnEq(merged,
                                  [ f EXCEPT !.line =
                                      PyInt(f.line.v + (chunks[i].start_line - 1)) ])
                    /\ IsNone(f.line) => VulnEq(merged, f)

\* a chunk starting at line 501 reported one finding at line 3 and one
\* without a line: the merged result has them at line 503 and at None
C3_Witness ==
    /\ pc = "chunked_done"
    /\ \E i \in 1..Len(chunks) :
          /\ chunks[i].start_line = 501
          /\ \E j \in 1..Len(ChunkFindings(i)) :
                /\ PyEq(ChunkFindings(i)[j].line, PyInt(3))
                /\ PyEq(scan_result.vulnerabilities[FindingsBefore(i) + j].line,
                        PyInt(503))
          /\ \E j \in 1..Len(ChunkFindings(i)) :
                /\ IsNone(ChunkFindings(i)[j].line)
                /\ IsNone(scan_result.vulnerabilities[FindingsBefore(i) + j].line)

\* C4: in the single path, when the client returned success = False, no
\* parser operation is ever invoked and the ScanResult returned has
\* success = False, the client's error string and the client's elapsed time.
C4_FailedTransportShortCircuits ==
    (pc \in {"single_dispatched", "single_parsed", "single_done"}
        /\ ~ai_results[1].success) =>
        /\ calls = <<>>
        /\ pc # "single_parsed"
        /\ pc = "single_done" =>
              /\ scan_result.success = FALSE
              /\ scan_result.error = ai_results[1].error
              /\ scan_result.error # NoError
              /\ scan_result.scan_time = ai_results[1].elapsed_time
              /\ scan_result.vulnerabilities = <<>>

\* the request timed out after 120 seconds and the file's result says so
C4_Witness ==
    /\ pc = "single_done"
    /\ ~ai_results[1].success
    /\ scan_result.error = "Request timed out"
    /\ scan_result.scan_time = 120
    /\ calls = <<>>

\* C5: in the single path with a successful transport, parse_legacy_response
\* is invoked if and only if parse_response reported failure, and only after
\* it; the ScanResult returned has success = True whatever the text.
C5_LegacyIffParseFailed ==
    /\ \A k \in 1..Len(calls) :
          calls[k] = "parse_legacy_response" =>
              k > 1 /\ calls[k - 1] = "parse_response"
    /\ (pc = "single_done" /\ ai_results[1].success) =>
          /\ Len(calls) \in {1, 2}
          /\ calls[1] = "parse_response"
          /\ (Len(calls) = 2) <=> ~ParsedAnswer(1).success
          /\ Len(calls) = 2 => calls[2] = "parse_legacy_response"
          /\ scan_result.success = TRUE

\* the answer held no JSON: both parsers ran, in this order, and the file is
\* reported as scanned
C5_Witness ==
    /\ pc = "single_done"
    /\ ai_results[1].success
    /\ ~ParsedAnswer(1).success
    /\ calls = <<"parse_response", "parse_legacy_response">>
    /\ scan_result.success = TRUE

\* the merged findings of the first n chunks
RECURSIVE MergedFindings(_)
MergedFindings(n) ==
    IF n = 0 THEN <<>>
    ELSE MergedFindings(n - 1) \o
         AdjustLines(ChunkFindings(n), chunks[n].start_line).val

\* C6: in the chunked path the merged ScanResult has success = True and
\* error = None and its vulnerabilities are the findings, concatenated in
\* chunk index order, of the chunks whose dispatch and whose parse_response
\* succeeded; a chunk whose dispatch or parse failed adds none, and
\* parse_legacy_response is never invoked for a chunk.
C6_MergedResult ==
    /\ pc \in {"scan_chunks", "chunk_dispatched", "chunked_done"} =>
          \A k \in 1..Len(calls) : calls[k] = "parse_response"
    /\ pc = "chunked_done" =>
          /\ scan_result.success = TRUE
          /\ scan_result.error = NoError
          /\ Len(calls) = Cardinality({ i \in 1..Len(chunks) : ai_results[i].success })
          /\ VulnsEq(scan_result.vulnerabilities, MergedFindings(Len(chunks)))

\* three chunks: the dispatch of one failed, the answer to another held no
\* JSON, the third reported findings, which are all the merged result has
C6_Witness ==
    /\ pc = "chunked_done"
    /\ Len(chunks) = 3
    /\ \E i \in 1..3 : ~ai_results[i].success
    /\ \E i \in 1..3 : ai_results[i].success /\ ~ParsedAnswer(i).success
    /\ \E i \in 1..3 :
          /\ Len(ChunkFindings(i)) = 2
          /\ Len(scan_result.vulnerabilities) = 2
    /\ scan_result.success = TRUE

-----------------------------------------------------------------------------
(* Claims about the response parser, checked under SpecParse.              *)

\* key in d
HasKey(d, key) == \E i \in 1..Len(d.v) : d.v[i][1] = key

\* an entry is well-formed when it is an object whose severity, if present,
\* is one of the five severity literals
WellFormed(e) ==
    /\ e.t = "dict"
    /\ HasKey(e, Key("severity")) =>
          LET sev == DictGet(e, Key("severity"), PyNone)
          IN  /\ sev.t = "str"
              /\ Len(sev.v) = 1
              /\ sev.v[1] \in {"critical", "high", "medium", "low", "info"}

\* the record of a well-formed entry
RecordOf(e) ==
    Vulnerability(DictGet(e, Key("type"), Word("Unknown")),
                  SeverityLiterals[DictGet(e, Key("severity"), Word("medium")).v[1]],
                  DictGet(e, Key("line"), PyNone),
                  DictGet(e, Key("code_snippet"), EmptyStr),
                  DictGet(e, Key("description"), EmptyStr),
                  DictGet(e, Key("recommendation"), EmptyStr),
                  DictGet(e, Key("cwe_id"), PyNone),
                  DictGet(e, Key("confidence"), PyFloat(100)))

\* the vulnerabilities array of the payload, when it has one
HasEntries ==
    /\ payload.t = "dict"
    /\ HasKey(payload, Key("vulnerabilities"))
    /\ DictGet(payload, Key("vulnerabilities"), PyNone).t = "list"

Entries == DictGet(payload, Key("vulnerabilities"), PyNone).v

\* C7: for a JSON object whose vulnerabilities array mixes well-formed and
\* malformed entries, parse_vulnerabilities returns exactly the records of
\* the well-formed entries in their order: an entry whose severity is present
\* and is none of the five literals gives no record and does not stop the
\* entries after it from being parsed.
C7_WellFormedEntriesOnly ==
    (op = "parse_vulnerabilities" /\ HasEntries) =>
        LET good == SelectSeq(Entries, WellFormed)
        IN  /\ out.ok
            /\ VulnsEq(out.val, [ i \in 1..Len(good) |-> RecordOf(good[i]) ])

\* an entry of unknown severity before a well-formed one: one record, the
\* second entry's
C7_Witness ==
    /\ op = "parse_vulnerabilities"
    /\ HasEntries
    /\ Len(Entries) = 2
    /\ ~WellFormed(Entries[1]) /\ Entries[1].t = "dict"
    /\ WellFormed(Entries[2])
    /\ out.ok
    /\ Len(out.val) = 1
    /\ VulnEq(out.val[1], RecordOf(Entries[2]))

\* C8: for a response text from which extract_json yields no data,
\* parse_response returns a ScanResult with success = False, the error
\* "Failed to extract JSON from AI response" and no vulnerabilities, with the
\* file_path, model_used and scan_time it was given.
C8_NoDataFailsTheParse ==
    (op = "parse_response" /\ IsNone(extract_json(resp_text))) =>
        /\ out.success = FALSE
        /\ out.error = "Failed to extract JSON from AI response"
        /\ out.vulnerabilities = <<>>
        /\ out.file_path = args.file_path
        /\ out.model_used = args.model_used
        /\ out.scan_time = args.scan_time

\* a fenced block whose JSON does not decode, given to parse_response
C8_Witness ==
    /\ op = "parse_response"
    /\ wrap \in FencedWraps
    /\ IsNone(extract_json(resp_text))
    /\ out.success = FALSE
    /\ out.file_path = "lib/util.js"

\* C9: extract_json round-trips: a valid JSON object with a vulnerabilities
\* key, serialized and wrapped in a fenced json block, with or without prose
\* around it, comes out of extract_json as the same object.
C9_FencedRoundTrip ==
    (op = "extract_json" /\ wrap \in {"fenced_json", "fenced_in_prose"}
        /\ payload.t = "dict" /\ HasKey(payload, Key("vulnerabilities"))) =>
        PyEq(out, payload)

\* C10: for a response text that contains, in any case, one of the phrases
\* "no vulnerabilities", "appears secure", "no security issues", "no issues
\* found", "code is secure", parse_legacy_response returns success = True
\* and no vulnerabilities, also when the text holds severity keywords.
C10_NoIssuePhraseWins ==
    (op = "parse_legacy_response"
        /\ \E phrase \in { "no vulnerabilities", "appears secure",
                           "no security issues", "no issues found",
                           "code is secure" } :
              re_search(phrase, Lower(resp_text))) =>
        /\ out.success = TRUE
        /\ out.error = NoError
        /\ out.vulnerabilities = <<>>

\* a text with a no-issue phrase in upper case and a severity keyword
C10_Witness ==
    /\ op = "parse_legacy_response"
    /\ \E i \in 1..Len(resp_text) : resp_text[i] = "Code is secure"
    /\ \E i \in 1..Len(resp_text) : resp_text[i] = "CRITICAL"
    /\ out.success = TRUE
    /\ out.vulnerabilities = <<>>

\* the text holds one of the no-issue phrases, in any case
HasNoIssuePhrase ==
    \E phrase \in { "no vulnerabilities", "appears secure", "no security issues",
                    "no issues found", "code is secure" } :
        re_search(phrase, Lower(resp_text))

\* the places of the text where a severity keyword is found, in any case
KeywordPlaces ==
    { i \in 1..Len(resp_text) :
        \E k \in {"critical", "high", "medium", "low"} :
            re_search(k, Lower(<<resp_text[i]>>)) }

\* d is the first n characters of the text: the lexemes that fit whole, then
\* the cut piece of the next one when the n-th character falls inside it
FirstChars(d, text, n) ==
    \E k \in 0..Len(text) :
        /\ TextLen(text, k) <= n
        /\ \/ /\ k = Len(text) \/ TextLen(text, k) = n
              /\ d = SubSeq(text, 1, k)
           \/ /\ k < Len(text) /\ TextLen(text, k) < n /\ TextLen(text, k + 1) > n
              /\ d = Append(SubSeq(text, 1, k), CUT_LEXEME)

\* C11: for a response text without a no-issue phrase, parse_legacy_response
\* returns exactly one Vulnerability when the text holds at least one of the
\* keywords critical/high/medium/low in any case, however many: type
\* "Security Issue", severity MEDIUM, line None, empty code_snippet, the first
\* 500 characters of the raw text for description, confidence 0.5; and it
\* returns no vulnerability when the text holds no keyword.
C11_OneGenericFinding ==
    (op = "parse_legacy_response" /\ ~HasNoIssuePhrase) =>
        IF KeywordPlaces # {}
            THEN /\ Len(out.vulnerabilities) = 1
                 /\ LET v == out.vulnerabilities[1]
                    IN  /\ PyEq(v.type, Word("Security Issue"))
                        /\ v.severity = "MEDIUM"
                        /\ IsNone(v.line)
                        /\ PyEq(v.code_snippet, EmptyStr)
                        /\ v.description.t = "str"
                        /\ FirstChars(v.description.v, resp_text, 500)
                        /\ PyEq(v.confidence, PyFloat(50))
        ELSE Len(out.vulnerabilities) = 0

\* a text with three keywords, one of them capitalised: one finding, its
\* description the whole text
C11_Witness ==
    /\ op = "parse_legacy_response"
    /\ ~HasNoIssuePhrase
    /\ Cardinality(KeywordPlaces) = 3
    /\ Len(out.vulnerabilities) = 1
    /\ out.vulnerabilities[1].description.v = resp_text

\* C12: every ScanResult returned by parse_legacy_response, whatever the
\* text, has success = True and error = None.
C12_LegacyAlwaysSucceeds ==
    op = "parse_legacy_response" =>
        /\ out.success = TRUE
        /\ out.error = NoError

\* a text with neither a no-issue phrase nor a keyword, and the empty text
C12_Witness ==
    /\ op = "parse_legacy_response"
    /\ ~HasNoIssuePhrase
    /\ KeywordPlaces = {}
    /\ out.success = TRUE
    /\ Len(out.vulnerabilities) = 0

-----------------------------------------------------------------------------
(* Claims about one invocation of the CLI, checked under SpecCli.          *)

\* C13: scan_directory returns exactly one ScanResult per discovered file,
\* the i-th being the result of the i-th discovered file, whatever the other
\* files came to (read failure, transport failure, parse failure).
C13_OneResultPerFileInOrder ==
    /\ Len(results) <= Len(discovered)
    /\ \A i \in 1..Len(results) :
          LET f == ScanFileMenu[discovered[i]]
          IN  /\ results[i].file_path = f.path
              /\ ~f.readable =>
                    /\ results[i].success = FALSE
                    /\ results[i].error = "Failed to read file"
    /\ pc = "scan_returned" => Len(results) = Len(discovered)

\* two files discovered: the first cannot be read, the second is scanned in
\* chunks and has findings; two results, in this order
C13_Witness ==
    /\ pc = "scan_returned"
    /\ Len(discovered) = 2
    /\ Len(results) = 2
    /\ results[1].error = "Failed to read file"
    /\ results[2].file_path = "min.js"
    /\ results[2].success = TRUE
    /\ Len(results[2].vulnerabilities) >= 1

\* C14: whatever reading the file, each dispatch and each response text come
\* to, scan_file returns a ScanResult and does not raise, in the single and
\* in the chunked path, so that scan_directory goes on to the next file.
C14_ScanFileNeverRaises ==
    pc # "scan_raised"

\* C15: when test_connection returns False, scan returns the empty list and
\* no file has been discovered or read and no analyze_code dispatch made.
C15_NoConnectionNoScan ==
    ~connected =>
        /\ io_log = <<>>
        /\ discovered = <<>>
        /\ ai_results = <<>>
        /\ results = <<>>
        /\ pc \in {"main", "scan", "scan_returned", "exited"}

\* the probe failed on a path that holds files: scan returned the empty list
C15_Witness ==
    /\ ~connected
    /\ pc = "scan_returned"
    /\ discover_files(cli_args.listing) # <<>>
    /\ results = <<>>
    /\ io_log = <<>>

\* a result of the invocation reports failure
AnyFailed == \E i \in 1..Len(results) : results[i].success = FALSE

\* a finding of the invocation is of severity CRITICAL or HIGH
AnyCriticalHigh ==
    \E i \in 1..Len(results) :
        \E j \in 1..Len(results[i].vulnerabilities) :
            results[i].vulnerabilities[j].severity \in {"CRITICAL", "HIGH"}

\* C20: when the result list of an invocation holds a ScanResult with
\* success = False or a finding of severity CRITICAL or HIGH, the process
\* ends with a non-zero exit status, whichever output format was selected.
C20_FindingsFailTheRun ==
    (pc = "exited" /\ (AnyFailed \/ AnyCriticalHigh)) => exit_status # 0

\* a json run whose files were all scanned and one of which has a finding of
\* high severity ends with status 1
C20_Witness ==
    /\ pc = "exited"
    /\ cli_args.format = "json"
    /\ results # <<>>
    /\ ~AnyFailed
    /\ AnyCriticalHigh
    /\ \A i \in 1..Len(results) :
          \A j \in 1..Len(results[i].vulnerabilities) :
              results[i].vulnerabilities[j].severity # "CRITICAL"
    /\ exit_status = 1

-----------------------------------------------------------------------------
(* More claims about chunk_code, checked under SpecChunk.                  *)

\* C16: for a code whose estimated tokens are within the usable budget and
\* whose line count is within max_chunk_lines, chunk_code returns exactly one
\* chunk: the code verbatim, chunk_index 0, total_chunks 1, start_line 1 and
\* end_line the number of lines of the code.
C16_SmallCodeOneChunk ==
    (ChunkCodeReturned /\ estimate_tokens(code) <= max_code_tokens
        /\ LineCount(code) <= max_chunk_lines) =>
        /\ Len(chunks) = 1
        /\ chunks[1].content = code
        /\ chunks[1].chunk_index = 0
        /\ chunks[1].total_chunks = 1
        /\ chunks[1].start_line = 1
        /\ chunks[1].end_line = Len(code)

\* a code of several lines, within the budget and the line limit
C16_Witness ==
    /\ ChunkCodeReturned
    /\ estimate_tokens(code) <= max_code_tokens
    /\ LineCount(code) <= max_chunk_lines
    /\ Len(code) >= 11
    /\ Len(chunks) = 1
    /\ chunks[1].end_line = Len(code)

\* the line of this number starts a function or a class
StartsDefinition(n) == code[n].head \in {"def ", "class "}

\* the lines strictly between the first line of a chunk and its proposed
\* end, the line at start + max_chunk_lines (0-based) left out
LookbackWindow(chunk) ==
    { n \in (chunk.start_line + 1)..(chunk.start_line + max_chunk_lines - 1) :
        n <= Len(code) }

\* C17: for a Python file that needs chunking, every chunk but the last ends
\* just before a line that starts with 'def ' or 'class ', the first line of
\* the next chunk, whenever the lookback window of the chunk holds such a
\* line.
C17_ChunksEndAtDefinitions ==
    (ChunkCodeReturned /\ needs_chunking(code) /\ language = ".py") =>
        \A i \in 1..(Len(chunks) - 1) :
            (\E n \in LookbackWindow(chunks[i]) : StartsDefinition(n)) =>
                /\ chunks[i + 1].start_line = chunks[i].end_line + 1
                /\ StartsDefinition(chunks[i + 1].start_line)

-----------------------------------------------------------------------------
(* More claims about the response parser, checked under SpecParse.         *)

\* C18: every Vulnerability that parse_vulnerabilities produces from model
\* output has a confidence within [0.0, 1.0]: a confidence out of range is
\* clamped or the entry rejected.
C18_ConfidenceInRange ==
    (op = "parse_vulnerabilities" /\ out.ok) =>
        \A i \in 1..Len(out.val) :
            LET c == out.val[i].confidence
            IN  /\ c.t \in {"int", "float"}
                /\ c.v >= 0
                /\ c.v <= (IF c.t = "float" THEN 100 ELSE 1)

-----------------------------------------------------------------------------
(* Claims about the order of severities, checked under SpecOrder.          *)

\* the severities from the most to the least severe
BySeverity == <<"CRITICAL", "HIGH", "MEDIUM", "LOW", "INFO">>

Place(sev) == CHOOSE k \in 1..Len(BySeverity) : BySeverity[k] = sev

\* how many times a severity occurs in a list
Occurrences(list, sev) == Cardinality({ i \in 1..Len(list) : list[i] = sev })

\* C19: the comparison of severities is a strict total order with
\* CRITICAL < HIGH < MEDIUM < LOW < INFO (irreflexive, transitive, two
\* distinct severities always comparable), so that sorting a list by
\* severity puts all CRITICAL before HIGH before MEDIUM before LOW before
\* INFO whatever the insertion order.
C19_SeverityTotalOrder ==
    /\ \A a \in Severities : ~Severity_lt(a, a)
    /\ \A a, b, c \in Severities :
          (Severity_lt(a, b) /\ Severity_lt(b, c)) => Severity_lt(a, c)
    /\ \A a, b \in Severities : a # b => (Severity_lt(a, b) \/ Severity_lt(b, a))
    /\ \A k \in 1..(Len(BySeverity) - 1) :
          Severity_lt(BySeverity[k], BySeverity[k + 1])
    /\ pc = "sorted" =>
          /\ Len(in_order) = Len(unsorted)
          /\ \A sev \in Severities :
                Occurrences(in_order, sev) = Occurrences(unsorted, sev)
          /\ \A i, j \in 1..Len(in_order) :
                i < j => Place(in_order[i]) <= Place(in_order[j])

\* INFO, then two of the others in the wrong order, sorted
C19_Witness ==
    /\ pc = "sorted"
    /\ Len(unsorted) = 3
    /\ unsorted[1] = "INFO"
    /\ unsorted[2] = "LOW"
    /\ unsorted[3] = "CRITICAL"
    /\ in_order = <<"CRITICAL", "LOW", "INFO">>

-----------------------------------------------------------------------------
(* One more claim about extract_json, checked under SpecParse.             *)

\* json.loads of a candidate, None when it does not decode
DecodeOrNone(candidate) ==
    LET r == json_loads(candidate)
    IN  IF r.ok THEN r.val ELSE PyNone

\* the one candidate of the precedence: the interior of the first fenced
\* block holding an object, else the greedy span of braces around
\* "vulnerabilities", else the whole trimmed text
ChosenCandidate ==
    LET fenced == FenceSearch(resp_text)
        raw == RawSearch(resp_text)
    IN  IF fenced # <<0, 0>> THEN SubSeq(resp_text, fenced[1], fenced[2])
        ELSE IF raw # <<0, 0>> THEN SubSeq(resp_text, raw[1], raw[2])
        ELSE Strip(resp_text)

\* C24: extract_json never raises, whatever the input string, and tries
\* exactly one candidate chosen by strict precedence; if that candidate does
\* not decode as JSON the result is None, with no fall-through to a
\* candidate of lower precedence.
C24_OneCandidateNeverRaises ==
    op = "extract_json" =>
        /\ pc # "parse_raised"
        /\ PyEq(out, DecodeOrNone(ChosenCandidate))

\* whenever extract_json returns, it returns what its one candidate decodes to
ReturnsItsOneCandidate ==
    (op = "extract_json" /\ pc = "parse_done") =>
        PyEq(out, DecodeOrNone(ChosenCandidate))

-----------------------------------------------------------------------------
(* More claims about chunk_code, checked under SpecChunk and SpecChunkFair. *)

\* C23: for every code and every max_chunk_lines >= 1 the splitting loop of
\* chunk_code terminates: every iteration emits a chunk of at least one line
\* and strictly increases the start index, until it reaches the file length.
C23_SplittingTerminates ==
    /\ [][ChunkStep => /\ chunk_start' > chunk_start
                       /\ chunk_start' <= Len(code)
                       /\ Len(chunks'[Len(chunks')].content) >= 1]_vars
    /\ <>(pc = "chunk_done")

\* the first chunk of a file was shrunk from 51 lines to one, and the loop
\* went on to the end of the file
C23_Witness ==
    /\ ChunkCodeReturned
    /\ max_chunk_lines = DEFAULT_MAX_CHUNK_LINES
    /\ Len(chunks) >= 3
    /\ chunks[1].end_line = 1

\* C25: the shrink loop respects a 10-line floor: a chunk that had more than
\* 10 lines before shrinking and was shrunk for exceeding the token budget
\* still has at least 10 lines when emitted.
C25_ShrinkFloor ==
    (/\ pc \in {"chunk_loop", "chunk_done"}
     /\ last_iter.end > 0
     /\ last_iter.broken - last_iter.start > MIN_CHUNK_LINES
     /\ last_iter.end < last_iter.broken) =>
        last_iter.end - last_iter.start >= MIN_CHUNK_LINES

\* C29: whenever needs_chunking(code) is true chunk_code returns at least
\* two chunks; it returns a single chunk only when needs_chunking(code) is
\* false.
C29_ChunkedMeansSplit ==
    ChunkCodeReturned =>
        /\ needs_chunking(code) => Len(chunks) >= 2
        /\ Len(chunks) = 1 => ~needs_chunking(code)

\* a file that needs chunking comes back in one chunk only when the shrink
\* loop left that chunk over the budget
OneChunkIsOverBudget ==
    (ChunkCodeReturned /\ needs_chunking(code) /\ Len(chunks) = 1) =>
        estimate_tokens(chunks[1].content) > max_code_tokens

\* '\n'.join of the contents of chunks 1..n: the lines of all of them
RECURSIVE JoinChunks(_, _)
JoinChunks(cs, n) ==
    IF n = 0 THEN <<>> ELSE JoinChunks(cs, n - 1) \o cs[n].content

\* C30: chunk_code loses and duplicates no source text: the contents of the
\* chunks, joined in chunk_index order with a newline between them, are the
\* code, and each content has end_line - start_line + 1 lines.
C30_ChunksReproduceCode ==
    ChunkCodeReturned =>
        /\ JoinChunks(chunks, Len(chunks)) = code
        /\ \A i \in 1..Len(chunks) :
              /\ chunks[i].chunk_index = i - 1
              /\ LineCount(chunks[i].content) =
                    chunks[i].end_line - chunks[i].start_line + 1

\* a file of two kinds of lines split in three chunks or more
C30_Witness ==
    /\ ChunkCodeReturned
    /\ Len(chunks) >= 3
    /\ code[1] # code[Len(code)]
    /\ JoinChunks(chunks, Len(chunks)) = code

-----------------------------------------------------------------------------
(* More claims about the scan, checked under SpecCli and Spec.             *)

\* the analyze_code calls made so far
Dispatches == { i \in 1..Len(io_log) : io_log[i] = "analyze_code" }

CacheCalls(name) == { k \in 1..Len(cache_log) : cache_log[k].op = name }

\* C22: in every run of the scan each model dispatch (analyze_code) for a
\* file is preceded by a cache lookup for that file and followed by a cache
\* update with the resulting ScanResult.
C22_CacheAroundDispatch ==
    Dispatches # {} =>
        /\ CacheCalls("get_cached_result") # {}
        /\ pc \in {"single_done", "chunked_done", "next_file", "scan_returned",
                   "exited"} => CacheCalls("cache_result") # {}

\* scan_file is at work on a file
InFile == pc \notin {"main", "scan", "next_file", "scan_returned", "exited"}

\* the calls the scan of a file of the menu takes: none for a file that
\* cannot be read, one for a file sent whole, one per chunk otherwise
ExpectedCalls(m) ==
    LET f == ScanFileMenu[m]
    IN  IF ~f.readable THEN 0
        ELSE IF needs_chunking(f.lines) THEN Len(chunk_code(f.lines, f.suffix))
        ELSE 1

RECURSIVE CallsThrough(_)
CallsThrough(n) ==
    IF n = 0 THEN 0 ELSE CallsThrough(n - 1) + ExpectedCalls(discovered[n])

\* the calls made are those of the files gone through, in discovery order,
\* and those made so far for the file at work, chunk after chunk
DispatchedInOrder ==
    /\ InFile =>
          /\ scan_path = ScanFileMenu[discovered[file_pos + 1]].path
          /\ Cardinality(Dispatches) = CallsThrough(file_pos) + Len(ai_results)
          /\ Len(ai_results) <= ExpectedCalls(discovered[file_pos + 1])
          /\ pc \in {"scan_chunks", "chunk_dispatched"} =>
                Len(ai_results) = chunk_pos + (IF pc = "chunk_dispatched" THEN 1 ELSE 0)
    /\ pc \in {"next_file", "scan_returned"} =>
          Cardinality(Dispatches) = CallsThrough(file_pos)

\* C26: dispatch is strictly sequential and without retry: files in
\* discovery order, the chunks of a file in chunk_index order, exactly one
\* analyze_code call for each unchunked file and exactly one per chunk for
\* each chunked file (also after a failed call).
C26_SequentialNoRetry ==
    /\ DispatchedInOrder
    /\ (pc = "exited" /\ discovered # <<>>) =>
          Cardinality(Dispatches) = CallsThrough(Len(discovered))

\* scan_file returned a ScanResult
ScanFileReturned == pc \in {"read_failed", "single_done", "chunked_done"}

\* C27: if every model dispatch made for a file fails at the transport
\* level, the file's ScanResult has success = False and carries the client's
\* error message, in the single path and in the chunked path.
C27_AllFailedIsFailure ==
    (/\ pc \in {"single_done", "chunked_done"}
     /\ ai_results # <<>>
     /\ \A i \in 1..Len(ai_results) : ~ai_results[i].success) =>
        /\ ~scan_result.success
        /\ \E i \in 1..Len(ai_results) : scan_result.error = ai_results[i].error

\* C28: every ScanResult scan_file returns, on any path, has success = True
\* if and only if error is None, and a result with success = False has an
\* empty vulnerabilities list.
C28_SuccessIffNoError ==
    ScanFileReturned =>
        /\ scan_result.success <=> (scan_result.error = NoError)
        /\ ~scan_result.success => Len(scan_result.vulnerabilities) = 0

\* the file could not be read: a failure with its message and no findings
C28_Witness ==
    /\ pc = "read_failed"
    /\ ~scan_result.success
    /\ scan_result.error = READ_FAILED
    /\ Len(scan_result.vulnerabilities) = 0

-----------------------------------------------------------------------------
(* Claims about the cache, checked under SpecCache.                        *)

\* equality of two ScanResults, field by field
ResultEq(a, b) ==
    /\ a.file_path = b.file_path /\ a.model_used = b.model_used
    /\ a.scan_time = b.scan_time /\ a.success = b.success /\ a.error = b.error
    /\ VulnsEq(a.vulnerabilities, b.vulnerabilities)

\* the last three calls are cache_result(path, A, P, r1), cache_result for
\* the same path under another model or prompt type, get_cached_result(path,
\* A, P), the file being readable
StoredTwiceThenLookedUp ==
    /\ Len(cache_log) >= 3
    /\ LET n == Len(cache_log)
           first == cache_log[n - 2]
           second == cache_log[n - 1]
           lookup == cache_log[n]
       IN  /\ first.op = "cache_result"
           /\ second.op = "cache_result"
           /\ lookup.op = "get_cached_result"
           /\ second.file_path = first.file_path
           /\ lookup.file_path = first.file_path
           /\ lookup.model_used = first.model_used
           /\ lookup.prompt_type = first.prompt_type
           /\ \/ second.model_used # first.model_used
              \/ second.prompt_type # first.prompt_type
           /\ file_content[first.file_path] # UNREADABLE

\* C21: the cache is keyed by (file path, content hash, model, prompt type):
\* after cache_result(path, A, P, r1) and then cache_result for the same
\* unchanged path under another model or prompt type,
\* get_cached_result(path, A, P) still returns r1.
C21_EntriesDoNotEvictEachOther ==
    StoredTwiceThenLookedUp =>
        LET first == cache_log[Len(cache_log) - 2]
        IN  /\ cached.found
            /\ ResultEq(cached.result,
                        CacheResults(first.file_path, first.model_used)[first.result])

\* a result stored and looked up under its own key comes back as it was
StoredResultComesBack ==
    LET n == Len(cache_log)
    IN  (/\ n >= 2
         /\ cache_log[n - 1].op = "cache_result"
         /\ cache_log[n].op = "get_cached_result"
         /\ cache_log[n].file_path = cache_log[n - 1].file_path
         /\ cache_log[n].model_used = cache_log[n - 1].model_used
         /\ cache_log[n].prompt_type = cache_log[n - 1].prompt_type
         /\ file_content[cache_log[n].file_path] # UNREADABLE) =>
            /\ cached.found
            /\ ResultEq(cached.result,
                        CacheResults(cache_log[n - 1].file_path,
                                     cache_log[n - 1].model_used)[cache_log[n - 1].result])

====
